---- MODULE Spec2Model ----
(***************************************************************************)
(* Model of the three-stage filtering pipeline of ArxivDigest-Reimagined:  *)
(* CacheManager, AsyncLLMClient.complete_batch, ArxivHTMLCrawler           *)
(* .fetch_batch, Stage1Filter/Stage2Filter/Stage3Filter.filter_batch and   *)
(* FilterPipeline.run, driven by backend/main.py, with the highlighting    *)
(* and export steps that follow a run, the cache and the judgment client   *)
(* used on their own, ArxivHtmlCleaner on parsed pages and on plain texts, *)
(* the cache key as text, and the single-pass scorer of src/relevancy.py.  *)
(*                                                                         *)
(* A paper is identified by its id.  Scores and thresholds are integers    *)
(* 0..MaxScore standing for the reals of [0,1] in steps of 1/MaxScore.      *)
(* The oracle's answer to a prompt is a score chosen freely plus a         *)
(* reasoning text; the reasoning is modelled by the paper the prompt was   *)
(* built from, so that an answer paired with a foreign paper is visible.   *)
(***************************************************************************)
EXTENDS Integers, Sequences, FiniteSets, TLC

\* ---------------------------------------------------------------- bounds
NumDocs == 2
MaxScore == 1
MaxRuns == 2
MaxOracleAnswers == 3
NumPrompts == 2
LLMMaxConcurrent == 2
CrawlerMaxConcurrent == 1
MaxRetries == 2
ExpireSeconds == 2
MaxTime == 3
MaxCacheWrites == 2
\* the longest page is MaxElements elements; budgets go up to MaxChars
MaxElements == 2
MaxChars == 3
\* the longest text given to the whitespace normalization on its own
MaxTextLen == 6
\* the longest paper id and the longest fingerprint given to _generate_key
MaxKeyLen == 2

Docs == 1..NumDocs
Stages == 1..3
\* CacheManager's partitions: the three stages and "highlight", numbered 4
Highlight == 4
Partitions == Stages \cup {Highlight}
Scores == 0..MaxScore
\* the lowest and the highest threshold a stage block can set
Thresholds == {0, MaxScore}
Prompts == 1..NumPrompts

\* Python's None
None == [none |-> TRUE]

\* ------------------------------------------------------------ sequences
RECURSIVE SeqToSet(_)
SeqToSet(s) == IF s = <<>> THEN {} ELSE {Head(s)} \cup SeqToSet(Tail(s))

Min(a, b) == IF a <= b THEN a ELSE b

\* main.py's fetched listing: the first n papers, n > 0 (main.py exits on an
\* empty listing)
Listings == {[i \in 1..n |-> i] : n \in 1..NumDocs}

\* ------------------------------------------------------- configuration
\* config.yaml as main.py reads it: the user prompt and one block per stage
Configs ==
    [user_prompt : Prompts,
     stage1 : [threshold : Thresholds],
     stage2 : [threshold : Thresholds],
     stage3 : [threshold : Thresholds]]

\* the configurations that use one threshold for the three stages
UniformConfigs == {c \in Configs : c.stage1 = c.stage2 /\ c.stage2 = c.stage3}

StageConfig(c, s) == IF s = 1 THEN c.stage1 ELSE IF s = 2 THEN c.stage2 ELSE c.stage3

\* main.py: stageN_threshold = stageN_config.get("threshold", ...)
StageThreshold(c, s) == StageConfig(c, s).threshold

\* a digest that leaves the stage blocks out of the hashed dict
ConfigHashWithoutStages(c) == <<c.user_prompt>>

\* a digest that leaves the user prompt out of the hashed dict
ConfigHashWithoutPrompt(c) ==
    <<c.stage1.threshold, c.stage2.threshold, c.stage3.threshold>>

\* main.py: config_for_hash and its SHA-256 digest.  The digest is modelled
\* as collision free: two digests are equal iff the hashed dicts are equal.
ConfigHash(c) ==
    <<c.user_prompt, c.stage1.threshold, c.stage2.threshold, c.stage3.threshold>>

\* the configuration in force before the first run is started
InitialConfig ==
    [user_prompt |-> 1, stage1 |-> [threshold |-> MaxScore],
     stage2 |-> [threshold |-> MaxScore], stage3 |-> [threshold |-> MaxScore]]

\* the configurations of runs that keep the user prompt and change thresholds
RunConfigs == {c \in UniformConfigs : c.user_prompt = InitialConfig.user_prompt}

\* ---------------------------------------------------------------- cache
\* CacheManager._generate_key
GenerateKey(paper_id, config_hash) ==
    IF config_hash # <<>> THEN <<paper_id, config_hash>> ELSE <<paper_id>>

\* a lookup by paper id alone: any entry of the paper, whatever its fingerprint
CacheGetAnyFingerprint(c, stage, paper_id, config_hash) ==
    LET keys == {k \in DOMAIN c[stage] : k[1] = paper_id}
    IN  IF keys # {} THEN c[stage][CHOOSE k \in keys : TRUE] ELSE None

\* CacheManager.get on the partition of one stage (a function key -> value)
CacheGet(c, stage, paper_id, config_hash) ==
    LET key == GenerateKey(paper_id, config_hash)
    IN  IF key \in DOMAIN c[stage] THEN c[stage][key] ELSE None

\* a set that keeps the value a key already has (diskcache's add)
CacheSetKeepingFirst(c, stage, paper_id, result, config_hash) ==
    LET key == GenerateKey(paper_id, config_hash)
    IN  [c EXCEPT ![stage] =
            [k \in DOMAIN c[stage] \cup {key} |->
                IF k \in DOMAIN c[stage] THEN c[stage][k] ELSE result]]

\* CacheManager.set: the whole value is replaced
CacheSet(c, stage, paper_id, result, config_hash) ==
    LET key == GenerateKey(paper_id, config_hash)
    IN  [c EXCEPT ![stage] =
            [k \in DOMAIN c[stage] \cup {key} |->
                IF k = key THEN result ELSE c[stage][k]]]

\* CacheManager.delete / diskcache's cull: the row of the key is removed
CacheRemove(c, stage, key) ==
    [c EXCEPT ![stage] = [k \in DOMAIN c[stage] \ {key} |-> c[stage][k]]]

\* a clear_stage that clears every partition, as clear_all does
CacheClearAll(c, stage) == [s \in DOMAIN c |-> <<>>]

\* CacheManager.clear_stage: cache.clear() on the partition of the stage
CacheClear(c, stage) == [c EXCEPT ![stage] = <<>>]

\* a set that leaves the expire time of a row it overwrites as it was
ExpireTimeOfFirstSet(e, stage, key, t) ==
    IF key \in DOMAIN e[stage] THEN e[stage][key] ELSE t + ExpireSeconds

\* CacheManager.set: cache.set(key, result, expire=self.expire_seconds) at
\* time t gives the row the expire time t + expire_seconds
ExpireTime(e, stage, key, t) == t + ExpireSeconds

\* a read that takes a row until its expire time is over, that time included
UnexpiredThrough(c, e, t) ==
    [s \in DOMAIN c |-> [k \in {x \in DOMAIN c[s] : e[s][x] >= t} |-> c[s][k]]]

\* diskcache reads a row only while its expire time is later than the clock:
\* what get, "key in cache" and delete see of the rows c with expire times e
\* at time t
Unexpired(c, e, t) ==
    [s \in DOMAIN c |-> [k \in {x \in DOMAIN c[s] : e[s][x] > t} |-> c[s][k]]]

\* ---------------------------------------------------- Content Extractor
\* A text is a sequence of characters.  A page is the tree BeautifulSoup
\* builds: a NavigableString carries a text, a Tag a name, its classes, the
\* encoding attribute (annotation tags) and its children.
NL == "\n"
Whitespace == {" ", NL}
Digit == {"0", "1", "2", "3", "4", "5", "6", "7", "8", "9"}
UpperCase == {"A", "B", "C", "D", "E", "F", "G", "H", "I", "J", "K", "L", "M",
              "N", "O", "P", "Q", "R", "S", "T", "U", "V", "W", "X", "Y", "Z"}

NavigableString(s) ==
    [name |-> "#text", class |-> {}, encoding |-> "", text |-> s, children |-> <<>>]
Tag(name, class, children) ==
    [name |-> name, class |-> class, encoding |-> "", text |-> <<>>, children |-> children]
Annotation(encoding, children) ==
    [Tag("annotation", {}, children) EXCEPT !.encoding = encoding]
IsTag(node) == node.name # "#text"
NonEmpty(s) == Len(s) > 0

\* str.strip()
RECURSIVE LStrip(_)
LStrip(s) == IF Len(s) > 0 /\ Head(s) \in Whitespace THEN LStrip(Tail(s)) ELSE s
RECURSIVE RStrip(_)
RStrip(s) ==
    IF Len(s) > 0 /\ s[Len(s)] \in Whitespace THEN RStrip(SubSeq(s, 1, Len(s) - 1)) ELSE s
Strip(s) == RStrip(LStrip(s))

\* sep.join(parts)
RECURSIVE Join(_, _)
Join(parts, sep) ==
    IF Len(parts) = 0 THEN <<>>
    ELSE IF Len(parts) = 1 THEN parts[1]
    ELSE parts[1] \o sep \o Join(Tail(parts), sep)

\* s.split(c) for a single character c
RECURSIVE Split(_, _)
Split(s, c) ==
    IF \A i \in 1..Len(s) : s[i] # c THEN <<s>>
    ELSE LET i == CHOOSE k \in 1..Len(s) : s[k] = c /\ \A j \in 1..(k - 1) : s[j] # c
         IN  <<SubSeq(s, 1, i - 1)>> \o Split(SubSeq(s, i + 1, Len(s)), c)

\* s.startswith(prefix)
StartsWith(s, prefix) == Len(prefix) <= Len(s) /\ SubSeq(s, 1, Len(prefix)) = prefix

\* the number of leading characters of s that are in set
RECURSIVE LeadingRun(_, _)
LeadingRun(s, set) ==
    IF Len(s) > 0 /\ Head(s) \in set THEN 1 + LeadingRun(Tail(s), set) ELSE 0

\* re.sub(r" +", " ", text)
RECURSIVE CollapseSpaces(_)
CollapseSpaces(s) ==
    IF Len(s) < 2 THEN s
    ELSE IF s[1] = " " /\ s[2] = " " THEN CollapseSpaces(Tail(s))
    ELSE <<s[1]>> \o CollapseSpaces(Tail(s))

\* re.sub(r"\n{3,}", "\n\n", text)
RECURSIVE CollapseNewlines(_)
CollapseNewlines(s) ==
    IF Len(s) < 3 THEN s
    ELSE IF s[1] = NL /\ s[2] = NL /\ s[3] = NL THEN CollapseNewlines(Tail(s))
    ELSE <<s[1]>> \o CollapseNewlines(Tail(s))

\* re.sub(r"^(#{1,6})\s*(\d+)([A-Z])", r"\1 \2 \3", line) on a line that
\* starts with "#": one to six hashes, any whitespace, all the digits that
\* follow, and a capital letter right after them
RepairHeaderNumber(line) ==
    LET h == LeadingRun(line, {"#"})
        afterHashes == SubSeq(line, h + 1, Len(line))
        w == LeadingRun(afterHashes, Whitespace)
        afterSpace == SubSeq(afterHashes, w + 1, Len(afterHashes))
        d == LeadingRun(afterSpace, Digit)
        rest == SubSeq(afterSpace, d + 1, Len(afterSpace))
    IN  IF h \in 1..6 /\ d >= 1 /\ Len(rest) > 0 /\ rest[1] \in UpperCase
        THEN SubSeq(line, 1, h) \o <<" ">> \o SubSeq(afterSpace, 1, d) \o <<" ">> \o rest
        ELSE line

\* ArxivHtmlCleaner._normalize_whitespace
NormalizeWhitespace(text) ==
    LET collapsed == CollapseNewlines(CollapseSpaces(text))
        split == Split(collapsed, NL)
        lines == [i \in DOMAIN split |->
                    LET line == Strip(split[i])
                    IN  IF StartsWith(line, <<"#">>) THEN RepairHeaderNumber(line) ELSE line]
    IN  Strip(Join(lines, <<NL>>))

\* Tag.find_all without a filter: the tags below, in document order
RECURSIVE Descendants(_)
Descendants(children) ==
    IF Len(children) = 0 THEN <<>>
    ELSE LET child == Head(children)
         IN  (IF IsTag(child) THEN <<child>> \o Descendants(child.children) ELSE <<>>)
                 \o Descendants(Tail(children))

\* Tag.find_all(names)
FindAll(tag, names) == SelectSeq(Descendants(tag.children), LAMBDA t : t.name \in names)

\* Tag.find_all(names, class_=...) for the class names of classes
FindAllOfClass(tag, names, classes) ==
    SelectSeq(FindAll(tag, names), LAMBDA t : t.class \cap classes # {})

\* the strings below the nodes, in document order
RECURSIVE AllStrings(_)
AllStrings(nodes) ==
    IF Len(nodes) = 0 THEN <<>>
    ELSE LET node == Head(nodes)
         IN  (IF IsTag(node) THEN AllStrings(node.children) ELSE <<node.text>>)
                 \o AllStrings(Tail(nodes))

\* node.get_text(separator=sep, strip=True)
GetText(node, sep) ==
    LET strings == AllStrings(<<node>>)
        stripped == [i \in DOMAIN strings |-> Strip(strings[i])]
    IN  Join(SelectSeq(stripped, NonEmpty), sep)

\* the math without its delimiters
ExtractMathBare(math_tag) ==
    LET found == SelectSeq(FindAll(math_tag, {"annotation"}),
                           LAMBDA a : a.encoding = "application/x-tex")
    IN  IF Len(found) > 0 THEN GetText(found[1], <<>>) ELSE <<>>

\* ArxivHtmlCleaner._extract_math
ExtractMath(math_tag) ==
    LET found == SelectSeq(FindAll(math_tag, {"annotation"}),
                           LAMBDA a : a.encoding = "application/x-tex")
    IN  IF Len(found) > 0 THEN <<"$">> \o GetText(found[1], <<>>) \o <<"$">> ELSE <<>>

\* ArxivHtmlCleaner._extract_citation_text
ExtractCitationText(cite_element) ==
    LET children == cite_element.children
        text_parts == [i \in DOMAIN children |->
                         LET child == children[i]
                         IN  IF ~IsTag(child) THEN Strip(child.text)
                             ELSE IF child.name = "a" /\ "ltx_ref" \in child.class
                             THEN GetText(child, <<>>)
                             ELSE GetText(child, <<>>)]
    IN  Join(SelectSeq(text_parts, NonEmpty), <<" ">>)

\* tags and classes clean decomposes
TagsToRemove == {"script", "style", "nav", "header", "footer", "aside"}
ClassesToRemove == {"ltx_bibliography", "ltx_page_navbar", "ltx_TOC", "ltx_authors",
                    "ltx_dates", "ltx_note"}

\* what a pass over the tree puts in the place of a tag it matches: nothing
\* (decompose) or one string (replace_with)
Matches(tag, pass) ==
    CASE pass = "remove" -> tag.name \in TagsToRemove \/ tag.class \cap ClassesToRemove # {}
      [] pass = "math" -> tag.name = "math" /\ NonEmpty(ExtractMath(tag))
      [] pass = "cite" -> tag.name = "cite"
      [] pass = "ref" -> tag.name = "a" /\ "ltx_ref" \in tag.class

\* the strings put in the place of a tag: one string, or none if it is empty
AsStrings(text) == IF Len(text) > 0 THEN <<NavigableString(text)>> ELSE <<>>

\* f"{before}{text}{after}" if text else ""
Wrapped(before, text, after) == IF Len(text) > 0 THEN before \o text \o after ELSE <<>>

Replacement(tag, pass) ==
    CASE pass = "remove" -> <<>>
      [] pass = "math" -> AsStrings(ExtractMath(tag))
      [] pass = "cite" -> AsStrings(Wrapped(<<"[">>, ExtractCitationText(tag), <<"]">>))
      [] pass = "ref" -> AsStrings(GetText(tag, <<>>))

\* the children after "for tag in find_all(...): tag.decompose() or
\* tag.replace_with(...)"
RECURSIVE Rewritten(_, _)
Rewritten(children, pass) ==
    IF Len(children) = 0 THEN <<>>
    ELSE LET child == Head(children)
             new == IF ~IsTag(child) THEN <<child>>
                    ELSE IF Matches(child, pass) THEN Replacement(child, pass)
                    ELSE <<[child EXCEPT !.children = Rewritten(child.children, pass)]>>
         IN  new \o Rewritten(Tail(children), pass)

\* ArxivHtmlCleaner._extract_text_from_element
ExtractTextFromElement(element) ==
    GetText([element EXCEPT !.children =
                Rewritten(Rewritten(Rewritten(element.children, "math"), "cite"), "ref")],
            <<" ">>)

\* the text of each element
TextsOf(elements) == [i \in DOMAIN elements |-> ExtractTextFromElement(elements[i])]

\* the text of the first element found, if one was found
FirstText(found) == IF Len(found) > 0 THEN ExtractTextFromElement(found[1]) ELSE <<>>

HeaderLevel == [h1 |-> 1, h2 |-> 2, h3 |-> 3, h4 |-> 4, h5 |-> 5, h6 |-> 6]

\* ArxivHtmlCleaner._handle_header
HandleHeader(tag) ==
    Wrapped(IF HeaderLevel[tag.name] <= 2
            THEN <<NL, NL, "#", "#", " ">> ELSE <<NL, NL, "#", "#", "#", " ">>,
            ExtractTextFromElement(tag), <<NL>>)

\* ArxivHtmlCleaner._handle_paragraph
HandleParagraph(tag) == Wrapped(<<NL>>, ExtractTextFromElement(tag), <<NL>>)

\* _handle_list's items: "- text" for each li that has text
ListItems(lis) ==
    SelectSeq([i \in DOMAIN lis |-> Wrapped(<<"-", " ">>, ExtractTextFromElement(lis[i]), <<>>)],
              NonEmpty)

\* ArxivHtmlCleaner._handle_list
HandleList(tag) ==
    Wrapped(<<NL>>,
            Join(ListItems(SelectSeq(tag.children, LAMBDA c : c.name = "li")), <<NL>>),
            <<NL>>)

KindTable == <<"T", "a", "b", "l", "e">>
KindFigure == <<"F", "i", "g", "u", "r", "e">>

\* the bracketed label of a caption: "[caption]" if the caption states its
\* kind, else "[kind: caption]"
Label(kind, caption) ==
    IF StartsWith(caption, KindTable) \/ StartsWith(caption, KindFigure)
    THEN <<"[">> \o caption \o <<"]">>
    ELSE <<"[">> \o kind \o <<":", " ">> \o caption \o <<"]">>

\* _extract_table's rows: the cells of each tr that have text, joined
TableRow(cells) == Join(SelectSeq(TextsOf(cells), NonEmpty), <<" ", "|", " ">>)
TableRows(trs) ==
    SelectSeq([i \in DOMAIN trs |-> TableRow(FindAll(trs[i], {"td", "th"}))], NonEmpty)

\* _extract_table's result for the caption and the rows
TableText(caption, rows) ==
    IF Len(rows) = 0 THEN <<>>
    ELSE (IF Len(caption) > 0 THEN Label(KindTable, caption)
          ELSE <<"[">> \o KindTable \o <<"]">>) \o <<NL>> \o Join(rows, <<NL>>)

\* ArxivHtmlCleaner._extract_table
ExtractTable(table_element) ==
    TableText(FirstText(FindAll(table_element, {"caption", "figcaption"})),
              TableRows(FindAll(table_element, {"tr"})))

\* ArxivHtmlCleaner._handle_table
HandleTable(tag) == Wrapped(<<NL>>, ExtractTable(tag), <<NL>>)

\* _handle_equation_table's loop over the cells: the parts they add
RECURSIVE EquationParts(_, _, _)
EquationParts(cells, eq_number_tags, eq_number) ==
    IF Len(cells) = 0 THEN <<>>
    ELSE LET cell == Head(cells)
             math_tags == FindAll(cell, {"math"})
             parts ==
                 IF cell.class \cap {"ltx_eqn_center_padleft", "ltx_eqn_center_padright"} # {}
                 THEN <<>>
                 ELSE IF Len(math_tags) > 0
                 THEN SelectSeq([i \in DOMAIN math_tags |-> ExtractMath(math_tags[i])],
                                NonEmpty)
                 ELSE IF /\ Len(eq_number_tags) > 0
                         /\ \E j \in DOMAIN Descendants(cell.children) :
                                Descendants(cell.children)[j] = eq_number_tags[1]
                 THEN <<>>
                 ELSE IF GetText(cell, <<>>) # eq_number
                 THEN SelectSeq(<<GetText(cell, <<>>)>>, NonEmpty)
                 ELSE <<>>
         IN  parts \o EquationParts(Tail(cells), eq_number_tags, eq_number)

\* _handle_equation_table's result for the joined parts and the number
EquationText(equation, eq_number) ==
    Wrapped(<<NL>>, equation, Wrapped(<<" ">>, eq_number, <<>>) \o <<NL>>)

\* ArxivHtmlCleaner._handle_equation_table
HandleEquationTable(tag) ==
    LET eq_number_tags == FindAllOfClass(tag, {"span"}, {"ltx_tag_equation"})
        eq_number == IF Len(eq_number_tags) > 0 THEN GetText(eq_number_tags[1], <<>>) ELSE <<>>
    IN  EquationText(Join(EquationParts(FindAll(tag, {"td"}), eq_number_tags, eq_number),
                          <<" ">>),
                     eq_number)

\* _handle_figure's result for the caption text
FigureText(caption_text) ==
    IF Len(caption_text) = 0 THEN <<>>
    ELSE <<NL>> \o Label(KindFigure, caption_text) \o <<NL>>

\* ArxivHtmlCleaner._handle_figure
HandleFigure(tag) == FigureText(FirstText(FindAll(tag, {"figcaption"})))

\* ArxivHtmlCleaner._handle_math
HandleMath(tag) == Wrapped(<<" ">>, ExtractMath(tag), <<" ">>)

\* ArxivHtmlCleaner._handle_citation
HandleCitation(tag) == Wrapped(<<"[">>, ExtractCitationText(tag), <<"]">>)

\* ArxivHtmlCleaner._handle_link
HandleLink(tag) ==
    IF "ltx_ref" \in tag.class THEN GetText(tag, <<>>) ELSE ExtractTextFromElement(tag)

\* the class names that contain "ltx_equationgroup" or "ltx_eqn"
EquationClasses == {"ltx_equationgroup", "ltx_eqn_table", "ltx_eqn_row", "ltx_eqn_cell",
                    "ltx_eqn_center_padleft", "ltx_eqn_center_padright"}
InlineTags == {"span", "em", "strong", "i", "b", "code"}
BlockTags == {"section", "div", "article"}

\* ArxivHtmlCleaner._handle_tag; recursed is what _extract_text_recursive(tag)
\* returns, which the block tags and the tags of no other kind are given
HandleTag(tag, recursed) ==
    IF tag.name \in DOMAIN HeaderLevel THEN HandleHeader(tag)
    ELSE IF tag.name = "p" THEN HandleParagraph(tag)
    ELSE IF tag.name \in BlockTags THEN recursed
    ELSE IF tag.name \in {"ul", "ol"} THEN HandleList(tag)
    ELSE IF tag.name = "table"
    THEN IF tag.class \cap EquationClasses # {}
         THEN HandleEquationTable(tag) ELSE HandleTable(tag)
    ELSE IF tag.name = "figure" THEN HandleFigure(tag)
    ELSE IF tag.name = "math" THEN HandleMath(tag)
    ELSE IF tag.name = "cite" THEN HandleCitation(tag)
    ELSE IF tag.name = "a" THEN HandleLink(tag)
    ELSE IF tag.name \in InlineTags THEN ExtractTextFromElement(tag)
    ELSE recursed

\* ArxivHtmlCleaner._extract_text_recursive
RECURSIVE ExtractTextRecursive(_)
ExtractTextRecursive(element) ==
    LET children == element.children
        result == [i \in DOMAIN children |->
                     IF IsTag(children[i])
                     THEN HandleTag(children[i], ExtractTextRecursive(children[i]))
                     ELSE Strip(children[i].text)]
    IN  Join(SelectSeq(result, NonEmpty), <<" ">>)

\* "self.max_chars and ...": None and 0 are false
Truthy(max) == Len(max) > 0 /\ max[1] # 0

\* clean's main_content in the page left after the removals
MainContent(soup) ==
    LET articles == FindAll(soup, {"article"})
        contents == FindAllOfClass(soup, {"div"}, {"ltx_page_content"})
    IN  IF Len(articles) > 0 THEN articles[1]
        ELSE IF Len(contents) > 0 THEN contents[1]
        ELSE soup

\* clean's "Apply max_chars limit"
Truncated(text, max) ==
    IF Truthy(max) /\ Len(text) > max[1] THEN SubSeq(text, 1, max[1]) ELSE text

\* ArxivHtmlCleaner.clean on the parsed page
Clean(soup, max) ==
    Truncated(
        NormalizeWhitespace(ExtractTextRecursive(MainContent(
            [soup EXCEPT !.children = Rewritten(soup.children, "remove")]))),
        max)

\* ------------------------------------------------------------- schemas
\* schemas.add_pass_filter
AddPassFilter(result, threshold) ==
    [score |-> result.score,
     reasoning |-> result.reasoning,
     pass_filter |-> result.score >= threshold]

\* schemas.prepare_result_with_conversation: the request messages followed
\* by the assistant's response
PrepareResultWithConversation(result, threshold, messages) ==
    LET d == AddPassFilter(result, threshold)
    IN  [score |-> d.score, reasoning |-> d.reasoning,
         pass_filter |-> d.pass_filter,
         messages |-> <<messages, result>>]

\* AsyncLLMClient.build_stageN_messages
BuildMessages(stage, paper, user_prompt) ==
    [stage |-> stage, paper |-> paper, user_prompt |-> user_prompt]

\* the oracle's possible answers to one prompt
OracleAnswers(messages) ==
    {[score |-> sc, reasoning |-> messages.paper] : sc \in Scores}

NoResponse == [score |-> 0, reasoning |-> 0]

VARIABLES
    cache,            \* CacheManager: stage -> (key -> result dict)
    runs_left,        \* program runs that may still be started
    oracle_left,      \* answers the oracle will still give before it only fails
    config,           \* the configuration of the current run
    pc,               \* FilterPipeline.run: idle, Stage1, Stage2, Stage3, Done, raised
    papers,           \* run's input list
    stage_results,    \* run's stageN_results
    stage_passed,     \* run's stageN_passed
    fstage,           \* the stage whose filter_batch was called last (0: none)
    fpc,              \* filter_batch: idle, fetch, llm, returned, raised
    fpapers,          \* filter_batch's input list
    cached_results,   \* filter_batch local
    uncached_papers,  \* filter_batch local
    papers_with_text, \* Stage3Filter.filter_batch local
    batch_papers,     \* the papers the submitted batch was built from
    batch_messages,   \* filter_batch local / complete_batch argument
    tasks,            \* complete_batch: one task per prompt
    llm_permits,      \* AsyncLLMClient.semaphore
    ftasks,           \* fetch_batch: one task per id
    fetch_permits,    \* ArxivHTMLCrawler.semaphore
    evaluated_results,\* filter_batch local
    all_results,      \* filter_batch return value
    valid_results,    \* complete_batch return value
    cache_at_call,    \* history: the cache when the current filter_batch began
    looked_up,        \* history: stage -> papers looked up in the cache this run
    prompted,         \* history: stage -> papers whose prompt was submitted this run
    fetched,          \* history: papers whose fetch was issued this run
    invoked,          \* history: stages whose filter_batch was called this run
    max_retries,      \* ArxivHTMLCrawler.max_retries
    server,           \* the kinds of outcome a page request can have in this behaviour
    html_results,     \* Stage3Filter.filter_batch local: fetch_batch's return value
    fetch_failed,     \* history: the stage 3 keys whose latest fetch gave no page
    judged,           \* history: stage -> (key -> the answers the oracle gave for it)
    threshold_at_set, \* history: stage -> (key -> threshold of the run that wrote it)
    single,           \* a complete call made beside the batch: idle, waiting, inflight, ok, failed
    now,              \* the clock diskcache reads, in seconds
    expire_time,      \* diskcache: partition -> (key -> expire time of the row)
    written,          \* history: partition -> (key -> <<value, time, old value>> of the last set)
    writes_left,      \* CacheManager.set calls a direct user of the cache may still make
    mpc,              \* async_main after pipeline.run: run, highlighted, exported
    abstracts,        \* the "abstract" field of each paper dict of the listing
    highlight_info,   \* async_main's highlight_info_map
    digest,           \* JSONExporter: the exported papers list
    html,             \* ArxivHtmlCleaner.clean's argument, parsed
    max_chars,        \* ArxivHtmlCleaner.max_chars: <<>> (None) or <<n>>
    cleaned,          \* <<>>, or <<the text clean returned>>
    raw_text,         \* ArxivHtmlCleaner._normalize_whitespace's argument
    normalized,       \* <<>>, or <<the text _normalize_whitespace returned>>
    key_calls,        \* calls of CacheManager._generate_key: arguments and key
    scorer            \* generate_relevance_score: its arguments, locals and result

vars == <<cache, runs_left, oracle_left, config, pc, papers, stage_results, stage_passed,
          fpc, fpapers, cached_results, uncached_papers, papers_with_text,
          batch_papers, batch_messages, tasks, llm_permits, ftasks,
          fetch_permits, evaluated_results, all_results, valid_results,
          cache_at_call, looked_up, prompted, fetched, fstage, invoked,
          judged, threshold_at_set, max_retries, server, html_results, fetch_failed,
          single,
          now, expire_time, written, writes_left,
          mpc, abstracts, highlight_info, digest, html, max_chars, cleaned,
          raw_text, normalized, key_calls, scorer>>

crawlerVars == <<max_retries, server, fetch_failed>>
cleanerVars == <<html, max_chars, cleaned, raw_text, normalized>>
aloneVars == <<key_calls, scorer>>
ttlVars == <<now, expire_time, written, writes_left>>
mainVars == <<mpc, abstracts, highlight_info, digest>>
pipelineVars == <<papers, stage_results, stage_passed>>
llmVars == <<batch_papers, batch_messages, tasks, llm_permits, valid_results>>
fetchVars == <<ftasks, fetch_permits>>

\* generate_relevance_score has not been called
IdleScorer == [pc |-> "idle"]

\* the abstract of a paper as the listing gives it; bold tells whether the
\* highlighter's markdown bold has been added to the text
Abstract(id) == [text |-> id, bold |-> FALSE]

PcOf(s) == IF s = 1 THEN "Stage1" ELSE IF s = 2 THEN "Stage2" ELSE "Stage3"

EmptyCache == [s \in Partitions |-> <<>>]

\* the state after main.py built CacheManager over an empty cache directory,
\* AsyncLLMClient and ArxivHTMLCrawler
InitComponents ==
    /\ cache = EmptyCache
    /\ config = InitialConfig
    /\ pc = "idle"
    /\ papers = <<>>
    /\ stage_results = [s \in Stages |-> <<>>]
    /\ stage_passed = [s \in Stages |-> <<>>]
    /\ fstage = 0
    /\ fpc = "idle"
    /\ fpapers = <<>>
    /\ cached_results = <<>>
    /\ uncached_papers = <<>>
    /\ papers_with_text = <<>>
    /\ batch_papers = <<>>
    /\ batch_messages = <<>>
    /\ tasks = <<>>
    /\ llm_permits = LLMMaxConcurrent
    /\ ftasks = <<>>
    /\ fetch_permits = CrawlerMaxConcurrent
    /\ evaluated_results = <<>>
    /\ all_results = <<>>
    /\ valid_results = <<>>
    /\ cache_at_call = EmptyCache
    /\ looked_up = [s \in Stages |-> {}]
    /\ prompted = [s \in Stages |-> {}]
    /\ fetched = {}
    /\ invoked = {}
    /\ judged = EmptyCache
    /\ threshold_at_set = EmptyCache
    /\ html_results = <<>>
    /\ fetch_failed = {}
    /\ single = "idle"
    /\ now = 0
    /\ expire_time = EmptyCache
    /\ written = EmptyCache
    /\ mpc = "run"
    /\ abstracts = [d \in Docs |-> Abstract(d)]
    /\ highlight_info = <<>>
    /\ digest = <<>>

\* the outcomes of one page request: status 200, status 404, another status,
\* TimeoutError, aiohttp.ClientError, any other exception
Responses == {"ok", "not_found", "http_error", "timeout", "client_error", "unexpected"}

\* neither _generate_key nor generate_relevance_score has been called
InitAlone ==
    /\ key_calls = <<>>
    /\ scorer = IdleScorer

\* no page has been handed to the cleaner
EmptyPage == Tag("[document]", {}, <<>>)

InitCleaner ==
    /\ html = EmptyPage
    /\ max_chars = <<>>
    /\ cleaned = <<>>
    /\ raw_text = <<>>
    /\ normalized = <<>>

\* the crawler of the pipeline runs: every page request is answered, with the
\* page or with status 404
InitCrawler ==
    /\ max_retries = MaxRetries
    /\ server = {"ok", "not_found"}

\* one program run; the oracle can answer every request of the run
Init ==
    /\ writes_left = 0
    /\ runs_left = 1
    /\ oracle_left = 3 * NumDocs
    /\ InitComponents
    /\ InitAlone
    /\ InitCrawler
    /\ InitCleaner

\* ------------------------------------------------------ stage filters
\* a lookup that does not pass config_hash to CacheManager.get
IsCachedWithoutHash(c, stage, paper_id, config_hash) ==
    CacheGet(c, stage, paper_id, <<>>) # None

\* StageNFilter.filter_batch: "if cached is not None"
IsCached(c, stage, paper_id, config_hash) ==
    CacheGet(c, stage, paper_id, config_hash) # None

\* the statistics line that ends Stage1Filter/Stage2Filter.filter_batch
\* divides by len(papers); Stage3Filter guards its division
FinishPc(stage, ps) ==
    IF stage \in {1, 2} /\ Len(ps) = 0 THEN "raised" ELSE "returned"

NewTasks(n) == [i \in 1..n |-> [st |-> "waiting", response |-> NoResponse]]
\* attempt counts the requests answered so far, slept the retry delays begun,
\* last is the outcome of the latest request
NewFetchTasks(ids) ==
    [i \in 1..Len(ids) |->
        [id |-> ids[i], st |-> "waiting", result |-> None,
         attempt |-> 0, slept |-> 0, last |-> "none"]]

\* filter_batch up to its first await: the cache partition, then either the
\* return (nothing to evaluate), the fetch_batch call (stage 3) or the
\* complete_batch call (stages 1 and 2).  lu, pr, fe, inv are the history
\* sets the call adds to.
EnterFilter(stage, ps, cfg, lu, pr, fe, inv) ==
    LET h == ConfigHash(cfg)
        Hit(d) == IsCached(Unexpired(cache, expire_time, now), stage, d, h)
        Miss(d) == ~IsCached(Unexpired(cache, expire_time, now), stage, d, h)
        hits == SelectSeq(ps, Hit)
        misses == SelectSeq(ps, Miss)
        cr == [i \in 1..Len(hits) |->
                  <<hits[i], CacheGet(Unexpired(cache, expire_time, now), stage, hits[i], h)>>]
        live == Unexpired(cache, expire_time, now)
    IN  /\ fstage' = stage
        /\ invoked' = inv \cup {stage}
        /\ fpapers' = ps
        /\ cached_results' = cr
        /\ uncached_papers' = misses
        /\ papers_with_text' = <<>>
        /\ evaluated_results' = <<>>
        /\ valid_results' = <<>>
        /\ cache_at_call' = live
        /\ html_results' = <<>>
        /\ looked_up' = [lu EXCEPT ![stage] = @ \cup SeqToSet(ps)]
        /\ UNCHANGED <<llm_permits, fetch_permits>>
        /\ IF misses = <<>>
           THEN /\ fpc' = FinishPc(stage, ps)
                /\ all_results' = cr
                /\ batch_papers' = <<>> /\ batch_messages' = <<>> /\ tasks' = <<>>
                /\ ftasks' = <<>>
                /\ prompted' = pr /\ fetched' = fe
           ELSE IF stage = 3
           THEN /\ fpc' = "fetch"
                /\ all_results' = <<>>
                /\ batch_papers' = <<>> /\ batch_messages' = <<>> /\ tasks' = <<>>
                /\ ftasks' = NewFetchTasks(misses)
                /\ prompted' = pr /\ fetched' = fe \cup SeqToSet(misses)
           ELSE /\ fpc' = "llm"
                /\ all_results' = <<>>
                /\ batch_papers' = misses
                /\ batch_messages' =
                     [i \in 1..Len(misses) |-> BuildMessages(stage, misses[i], cfg.user_prompt)]
                /\ tasks' = NewTasks(Len(misses))
                /\ ftasks' = <<>>
                /\ prompted' = [pr EXCEPT ![stage] = @ \cup SeqToSet(misses)]
                /\ fetched' = fe

\* main.py: a program run reads its configuration, builds the pipeline and
\* calls FilterPipeline.run, which calls stage1.filter_batch(papers)
StartRun(cfg, ps) ==
    /\ pc \in {"idle", "Done", "raised"}
    /\ runs_left > 0
    /\ runs_left' = runs_left - 1
    /\ config' = cfg
    /\ papers' = ps
    /\ stage_results' = [s \in Stages |-> <<>>]
    /\ stage_passed' = [s \in Stages |-> <<>>]
    /\ EnterFilter(1, ps, cfg, [s \in Stages |-> {}], [s \in Stages |-> {}], {}, {})
    /\ pc' = IF fpc' = "raised" THEN "raised" ELSE PcOf(1)
    /\ mpc' = "run"
    /\ abstracts' = [d \in Docs |-> Abstract(d)]
    /\ highlight_info' = <<>>
    /\ digest' = <<>>
    /\ UNCHANGED <<cache, oracle_left, judged, threshold_at_set, crawlerVars, single, ttlVars,
                   cleanerVars, aloneVars>>

\* ------------------------------------------------------ Judgment Client
\* a semaphore that lets every task in
PermitAlwaysAvailable(p) == TRUE

\* a semaphore that still lets a task in when its value is zero
PermitAvailableAtZero(p) == p >= 0

\* asyncio.Semaphore: acquire goes on only while the value is positive
PermitAvailable(p) == p > 0

\* AsyncLLMClient.complete: "async with self.semaphore".  gather starts the
\* tasks in list order and asyncio.Semaphore wakes its waiters first in,
\* first out, so the permits are taken in request order.
LLMAcquire(i) ==
    /\ fpc = "llm"
    /\ i \in DOMAIN tasks
    /\ tasks[i].st = "waiting"
    /\ \A j \in 1..(i - 1) : tasks[j].st # "waiting"
    /\ PermitAvailable(llm_permits)
    /\ llm_permits' = llm_permits - 1
    /\ tasks' = [tasks EXCEPT ![i].st = "inflight"]
    /\ UNCHANGED <<cleanerVars, aloneVars,
                   crawlerVars, single, mainVars, ttlVars, html_results, cache,
                   runs_left, oracle_left, config,
                   pc, pipelineVars, fpc, fpapers,
                   cached_results, uncached_papers, papers_with_text,
                   batch_papers, batch_messages, fetchVars, evaluated_results,
                   all_results, valid_results, cache_at_call, looked_up,
                   prompted, fetched, fstage, invoked, judged, threshold_at_set>>

\* the record of the oracle's answers, kept per stage and cache key
Judged(j, stage, paper_id, r, config_hash) ==
    LET key == GenerateKey(paper_id, config_hash)
    IN  [j EXCEPT ![stage] =
            [k \in DOMAIN j[stage] \cup {key} |->
                IF k = key
                THEN (IF key \in DOMAIN j[stage] THEN j[stage][key] ELSE <<>>) \o <<r>>
                ELSE j[stage][k]]]

\* AsyncLLMClient.complete: the oracle answers with a typed result
LLMSucceed(i, r) ==
    /\ fpc = "llm"
    /\ i \in DOMAIN tasks
    /\ tasks[i].st = "inflight"
    /\ r \in OracleAnswers(batch_messages[i])
    /\ oracle_left > 0
    /\ oracle_left' = oracle_left - 1
    /\ llm_permits' = llm_permits + 1
    /\ tasks' = [tasks EXCEPT ![i] = [st |-> "ok", response |-> r]]
    /\ judged' = Judged(judged, fstage, batch_papers[i], r, ConfigHash(config))
    /\ UNCHANGED <<cleanerVars, aloneVars,
                   crawlerVars, single, mainVars, ttlVars, html_results, cache,
                   runs_left, config,
                   pc, pipelineVars, fpc, fpapers,
                   cached_results, uncached_papers, papers_with_text,
                   batch_papers, batch_messages, fetchVars, evaluated_results,
                   all_results, valid_results, cache_at_call, looked_up,
                   prompted, fetched, fstage, invoked, threshold_at_set>>

\* a complete whose exception leaves the task without the permit being
\* given back
LLMFailKeepingPermit(i) ==
    /\ fpc = "llm"
    /\ i \in DOMAIN tasks
    /\ tasks[i].st = "inflight"
    /\ llm_permits' = llm_permits
    /\ tasks' = [tasks EXCEPT ![i] = [st |-> "failed", response |-> NoResponse]]
    /\ UNCHANGED <<cleanerVars, aloneVars,
                   crawlerVars, single, mainVars, ttlVars, html_results, cache,
                   runs_left, oracle_left, config,
                   pc, pipelineVars, fpc, fpapers,
                   cached_results, uncached_papers, papers_with_text,
                   batch_papers, batch_messages, fetchVars, evaluated_results,
                   all_results, valid_results, cache_at_call, looked_up,
                   prompted, fetched, fstage, invoked, judged, threshold_at_set>>

\* AsyncLLMClient.complete: transport error or schema-validation failure,
\* logged and re-raised into the task
LLMFail(i) ==
    /\ fpc = "llm"
    /\ i \in DOMAIN tasks
    /\ tasks[i].st = "inflight"
    /\ llm_permits' = llm_permits + 1
    /\ tasks' = [tasks EXCEPT ![i] = [st |-> "failed", response |-> NoResponse]]
    /\ UNCHANGED <<cleanerVars, aloneVars,
                   crawlerVars, single, mainVars, ttlVars, html_results, cache,
                   runs_left, oracle_left, config,
                   pc, pipelineVars, fpc, fpapers,
                   cached_results, uncached_papers, papers_with_text,
                   batch_papers, batch_messages, fetchVars, evaluated_results,
                   all_results, valid_results, cache_at_call, looked_up,
                   prompted, fetched, fstage, invoked, judged, threshold_at_set>>

\* a complete_batch that returns the gathered list as it is
CompleteBatchKeepingFailures(ts) == [i \in 1..Len(ts) |-> ts[i].response]

\* AsyncLLMClient.complete_batch after gather: the exceptions are logged and
\* dropped, the other results are kept in task order
CompleteBatch(ts) ==
    LET Ok(t) == t.st = "ok"
        oks == SelectSeq(ts, Ok)
    IN  [i \in 1..Len(oks) |-> oks[i].response]

\* the loop "for paper, messages, (result, ...) in zip(papers, batch_messages,
\* results, strict=True)": its body runs once per index that all three lists
\* have, and zip raises ValueError after them when the lengths differ
ZipIterations(ps, rs) == Min(Len(ps), Len(rs))
ZipStrictRaises(ps, rs) == Len(ps) # Len(rs)

\* the (paper, result_dict) pairs the loop body builds
EvaluatedResults(ps, msgs, rs, threshold) ==
    [i \in 1..ZipIterations(ps, rs) |->
        <<ps[i], PrepareResultWithConversation(rs[i], threshold, msgs[i])>>]

\* the cache after the loop body's cache_manager.set calls, in loop order
RECURSIVE CacheWrites(_, _, _, _, _)
CacheWrites(c, stage, ev, config_hash, k) ==
    IF k = 0 THEN c
    ELSE CacheSet(CacheWrites(c, stage, ev, config_hash, k - 1),
                  stage, ev[k][1], ev[k][2], config_hash)

\* a filter_batch that puts the fresh judgments before the cached ones
CombineEvaluatedFirst(cached, evaluated) == evaluated \o cached

\* filter_batch: all_results = cached_results + evaluated_results
CombineResults(cached, evaluated) == cached \o evaluated

\* a wait that returns with the first request that has ended (asyncio.wait
\* with FIRST_COMPLETED)
AnyDone(ts) == \E i \in DOMAIN ts : ts[i].st \in {"ok", "failed"}

\* complete_batch: "await asyncio.gather(*tasks, return_exceptions=True)"
\* returns when every task has returned or raised
AllDone(ts) == \A i \in DOMAIN ts : ts[i].st \in {"ok", "failed"}

\* filter_batch from the return of complete_batch to its own return (or to
\* the ValueError of zip, which leaves filter_batch and FilterPipeline.run)
CompleteBatchReturn ==
    /\ fpc = "llm"
    /\ AllDone(tasks)
    /\ LET stage == fstage
           rs == CompleteBatch(tasks)
           ev == EvaluatedResults(batch_papers, batch_messages, rs,
                                  StageThreshold(config, stage))
       IN  /\ valid_results' = rs
           /\ evaluated_results' = ev
           /\ cache' = CacheWrites(cache, stage, ev, ConfigHash(config), Len(ev))
           /\ threshold_at_set' =
                 CacheWrites(threshold_at_set, stage,
                             [k \in DOMAIN ev |-> <<ev[k][1], StageThreshold(config, stage)>>],
                             ConfigHash(config), Len(ev))
           /\ expire_time' =
                 CacheWrites(expire_time, stage,
                             [k \in DOMAIN ev |->
                                 <<ev[k][1],
                                   ExpireTime(expire_time, stage,
                                              GenerateKey(ev[k][1], ConfigHash(config)), now)>>],
                             ConfigHash(config), Len(ev))
           /\ written' =
                 CacheWrites(written, stage,
                             [k \in DOMAIN ev |-> <<ev[k][1], <<ev[k][2], now, None>>>>],
                             ConfigHash(config), Len(ev))
           /\ IF ZipStrictRaises(batch_papers, rs)
              THEN /\ fpc' = "raised"
                   /\ all_results' = <<>>
              ELSE /\ fpc' = FinishPc(stage, fpapers)
                   /\ all_results' = CombineResults(cached_results, ev)
           /\ pc' = IF fpc' = "raised" THEN "raised" ELSE pc
    /\ UNCHANGED <<cleanerVars, aloneVars, crawlerVars, single, mainVars, now, writes_left,
                   html_results, runs_left,
                   oracle_left, config, pipelineVars, fpapers, cached_results,
                   uncached_papers, papers_with_text, batch_papers,
                   batch_messages, tasks, llm_permits, fetchVars,
                   cache_at_call, looked_up, prompted, fetched, fstage, invoked,
                   judged>>

\* ----------------------------------------------------- Document Fetcher
\* the page of a paper
Html(id) == [html |-> id]

\* _fetch_with_session: the page for status 200, None for any other status
FetchWithSession(id, outcome) == IF outcome = "ok" THEN Html(id) ELSE None

\* a fetch_html that also retries after status 404
RetriableWithNotFound(outcome) == outcome \in {"timeout", "client_error", "not_found"}

\* a fetch_html that also retries after an unexpected exception
RetriableWithUnexpected(outcome) == outcome \in {"timeout", "client_error", "unexpected"}

\* fetch_html: the handlers of TimeoutError and aiohttp.ClientError let the
\* loop go on; "except Exception" breaks, a returned value leaves the loop
Retriable(outcome) == outcome \in {"timeout", "client_error"}

\* a loop over range(self.max_retries + 1)
LoopIterationsPlusOne(n) == n + 1

\* fetch_html: "for attempt in range(self.max_retries)"
LoopIterations(n) == n

\* fetch_html: "if attempt < self.max_retries - 1: await asyncio.sleep(...)",
\* attempt being the 0-based index of the attempt that failed
SleepsBeforeRetry(attempt, n) == attempt < n - 1

\* a fetch_html that does not give its permit back
PermitKept(p) == p

\* fetch_html: leaving "async with self.semaphore"
PermitReleased(p) == p + 1

\* a crawler built on the client's semaphore: the fetch takes its permit from
\* the oracle pool
FetchAcquireOnClientPool(i) ==
    /\ fpc = "fetch"
    /\ i \in DOMAIN ftasks
    /\ ftasks[i].st = "waiting"
    /\ \A j \in 1..(i - 1) : ftasks[j].st # "waiting"
    /\ PermitAvailable(llm_permits)
    /\ llm_permits' = llm_permits - 1
    /\ ftasks' = [ftasks EXCEPT ![i].st = "inflight"]
    /\ UNCHANGED <<cleanerVars, aloneVars,
                   crawlerVars, single, mainVars, ttlVars, html_results, cache,
                   runs_left, oracle_left, config,
                   pc, pipelineVars, fpc, fpapers,
                   cached_results, uncached_papers, papers_with_text,
                   batch_papers, batch_messages, tasks, valid_results, fetch_permits,
                   evaluated_results, all_results, cache_at_call,
                   looked_up, prompted, fetched, fstage, invoked, judged,
                   threshold_at_set>>

\* ArxivHTMLCrawler.fetch_html: "async with self.semaphore", taken in request
\* order as in AsyncLLMClient.complete, and the first request; with
\* max_retries = 0 the loop body never runs and None is returned at once
FetchAcquire(i) ==
    /\ fpc = "fetch"
    /\ i \in DOMAIN ftasks
    /\ ftasks[i].st = "waiting"
    /\ \A j \in 1..(i - 1) : ftasks[j].st # "waiting"
    /\ PermitAvailable(fetch_permits)
    /\ IF LoopIterations(max_retries) > 0
       THEN /\ fetch_permits' = fetch_permits - 1
            /\ ftasks' = [ftasks EXCEPT ![i].st = "inflight"]
       ELSE /\ fetch_permits' = PermitReleased(fetch_permits - 1)
            /\ ftasks' = [ftasks EXCEPT ![i].st = "done"]
    /\ UNCHANGED <<cleanerVars, aloneVars,
                   crawlerVars, single, mainVars, ttlVars, html_results, cache,
                   runs_left, oracle_left, config,
                   pc, pipelineVars, fpc, fpapers,
                   cached_results, uncached_papers, papers_with_text,
                   llmVars, evaluated_results, all_results, cache_at_call,
                   looked_up, prompted, fetched, fstage, invoked, judged,
                   threshold_at_set>>

\* ArxivHTMLCrawler.fetch_html: one pass of the retry loop.  The request of
\* a task that is in flight, or that has slept its retry delay, ends with
\* outcome; the task returns, sleeps before the next attempt, or goes on to it.
FetchAttempt(i, outcome) ==
    /\ fpc = "fetch"
    /\ i \in DOMAIN ftasks
    /\ ftasks[i].st \in {"inflight", "sleeping"}
    /\ outcome \in server
    /\ LET t == ftasks[i]
           retry == Retriable(outcome) /\ t.attempt + 1 < LoopIterations(max_retries)
           sleeps == retry /\ SleepsBeforeRetry(t.attempt, max_retries)
       IN  /\ ftasks' = [ftasks EXCEPT ![i] =
                [id |-> t.id,
                 st |-> IF sleeps THEN "sleeping" ELSE IF retry THEN "inflight" ELSE "done",
                 result |-> IF retry THEN None ELSE FetchWithSession(t.id, outcome),
                 attempt |-> t.attempt + 1,
                 slept |-> IF sleeps THEN t.slept + 1 ELSE t.slept,
                 last |-> outcome]]
           /\ fetch_permits' = IF retry THEN fetch_permits ELSE PermitReleased(fetch_permits)
    /\ UNCHANGED <<cleanerVars, aloneVars,
                   crawlerVars, single, mainVars, ttlVars, html_results, cache,
                   runs_left, oracle_left, config,
                   pc, pipelineVars, fpc, fpapers,
                   cached_results, uncached_papers, papers_with_text,
                   llmVars, evaluated_results, all_results, cache_at_call,
                   looked_up, prompted, fetched, fstage, invoked, judged,
                   threshold_at_set>>

\* a fetch_batch that leaves the ids without a page out of the dict
FetchBatchResultOnlyPages(fts) ==
    [id \in {fts[i].id : i \in {j \in DOMAIN fts : fts[j].result # None}} |->
        Html(id)]

\* ArxivHTMLCrawler.fetch_batch: the returned dict, filled in request order
FetchBatchResult(fts) ==
    [id \in {fts[i].id : i \in DOMAIN fts} |->
        LET last == CHOOSE i \in DOMAIN fts :
                        /\ fts[i].id = id
                        /\ \A j \in DOMAIN fts : fts[j].id = id => j <= i
        IN  fts[last].result]

FetchAllDone(fts) == \A i \in DOMAIN fts : fts[i].st = "done"

\* a stage 3 that takes every paper to have a page
HasTextAlways(hr, paper) == TRUE

\* Stage3Filter.filter_batch: "html = html_results.get(paper['id']); if html:"
HasText(hr, paper) ==
    /\ paper \in DOMAIN hr
    /\ hr[paper] # None

\* a stage 3 that leaves the papers without a page out of its results
UnevaluatedResultsDropped(hr, ps) == <<>>

\* Stage3Filter.filter_batch: the papers without a page are added to the
\* results with None
UnevaluatedResults(hr, ps) ==
    LET NoText(d) == ~HasText(hr, d)
        without == SelectSeq(ps, NoText)
    IN  [i \in 1..Len(without) |-> <<without[i], None>>]

\* Stage3Filter.filter_batch from the return of fetch_batch to the
\* complete_batch call, or to its return when no paper has a page
FetchBatchReturn ==
    /\ fpc = "fetch"
    /\ FetchAllDone(ftasks)
    /\ LET hr == FetchBatchResult(ftasks)
           WithText(d) == HasText(hr, d)
           pwt == SelectSeq(uncached_papers, WithText)
           cr == cached_results \o UnevaluatedResults(hr, uncached_papers)
           h == ConfigHash(config)
           ids == DOMAIN hr
       IN  /\ html_results' = hr
           /\ fetch_failed' =
                 (fetch_failed \ {GenerateKey(d, h) : d \in ids})
                     \cup {GenerateKey(d, h) : d \in {x \in ids : hr[x] = None}}
           /\ papers_with_text' = pwt
           /\ cached_results' = cr
           /\ IF pwt # <<>>
              THEN /\ fpc' = "llm"
                   /\ batch_papers' = pwt
                   /\ batch_messages' =
                        [i \in 1..Len(pwt) |-> BuildMessages(3, pwt[i], config.user_prompt)]
                   /\ tasks' = NewTasks(Len(pwt))
                   /\ prompted' = [prompted EXCEPT ![3] = @ \cup SeqToSet(pwt)]
                   /\ all_results' = <<>>
              ELSE /\ fpc' = FinishPc(3, fpapers)
                   /\ all_results' = cr
                   /\ UNCHANGED <<batch_papers, batch_messages, tasks, prompted>>
    /\ UNCHANGED <<cleanerVars, aloneVars,
                   max_retries, server, single, mainVars, ttlVars, cache, runs_left,
                   oracle_left, config, pc,
                   pipelineVars, fpapers,
                   uncached_papers, llm_permits, fetchVars, evaluated_results,
                   valid_results, cache_at_call, looked_up, fetched, fstage,
                   invoked, judged, threshold_at_set>>

\* ------------------------------------------------ Pipeline Orchestrator
\* a run that forwards every judged paper, passed or not
StagePassedUnfiltered(stage, results) ==
    [i \in 1..Len(results) |-> results[i][1]]

\* a run that forwards the papers whose judgment did not pass
StagePassedInverted(stage, results) ==
    LET Fail(pr) == pr[2] # None /\ ~pr[2].pass_filter
        sel == SelectSeq(results, Fail)
    IN  [i \in 1..Len(sel) |-> sel[i][1]]

\* FilterPipeline.run: stageN_passed = [paper for paper, result in
\* stageN_results if result["pass_filter"]]; stage 3 tests "result and" first
StagePassed(stage, results) ==
    LET Pass(pr) == IF stage = 3
                    THEN pr[2] # None /\ pr[2].pass_filter
                    ELSE pr[2].pass_filter
        sel == SelectSeq(results, Pass)
    IN  [i \in 1..Len(sel) |-> sel[i][1]]

\* a run that calls the next stage whatever the survivor list is
RunsNextStageAlways(passed) == TRUE

\* FilterPipeline.run: "if stage1_passed:" / "if stage2_passed:"
RunsNextStage(passed) == passed # <<>>

\* FilterPipeline.run from the return of stage N's filter_batch to the call
\* of stage N+1's filter_batch, or to the return of run
PipelineAdvance ==
    /\ fpc = "returned"
    /\ pc \in {"Stage1", "Stage2", "Stage3"}
    /\ LET stage == fstage
           passed == StagePassed(stage, all_results)
       IN  /\ stage_results' = [stage_results EXCEPT ![stage] = all_results]
           /\ stage_passed' = [stage_passed EXCEPT ![stage] = passed]
           /\ IF stage < 3 /\ RunsNextStage(passed)
              THEN /\ EnterFilter(stage + 1, passed, config, looked_up, prompted, fetched, invoked)
                   /\ pc' = IF fpc' = "raised" THEN "raised" ELSE PcOf(stage + 1)
              ELSE /\ pc' = "Done"
                   /\ fpc' = "idle"
                   /\ UNCHANGED <<html_results, fpapers, cached_results, uncached_papers,
                                  papers_with_text, llmVars, fetchVars,
                                  evaluated_results, all_results,
                                  cache_at_call, looked_up, prompted, fetched, fstage, invoked>>
    /\ UNCHANGED <<cleanerVars, aloneVars, crawlerVars, single, mainVars, ttlVars, cache, runs_left,
                   oracle_left, config, papers, judged,
                   threshold_at_set>>

\* ------------------------------------------------ highlighting and export
\* what the steps of async_main after pipeline.run leave alone
besideMain ==
    <<cleanerVars, aloneVars,
      crawlerVars, single, html_results, runs_left, config, pc, pipelineVars, fpc,
      fpapers, cached_results, uncached_papers, papers_with_text, llmVars,
      fetchVars, evaluated_results, all_results, cache_at_call, looked_up,
      prompted, fetched, fstage, invoked, judged, threshold_at_set, now,
      writes_left>>

\* the highlighter's answer: the abstract with markdown bold added
Bold(abstract) == [abstract EXCEPT !.bold = TRUE]

\* async_main: the ids of stage3_papers_map, in the order of stage3_results
Stage3PapersMap(results) ==
    LET Pass(pr) == pr[2] # None /\ pr[2].pass_filter
        sel == SelectSeq(results, Pass)
    IN  [i \in 1..Len(sel) |-> sel[i][1]]

\* async_main from the return of pipeline.run to the call of the exporter:
\* AbstractHighlighter.highlight_batch on the papers that passed stage 3
\* (cache lookups, one oracle call per uncached abstract, whose failure
\* highlight turns into the original abstract, cache writes), then
\* paper["abstract"] = highlighted for each of them.  outcome tells for each
\* paper whether its oracle call succeeds.
HighlightAbstracts(outcome) ==
    /\ pc = "Done"
    /\ mpc = "run"
    /\ LET h == ConfigHash(config)
           ids == Stage3PapersMap(stage_results[3])
           live == Unexpired(cache, expire_time, now)
           Cached(d) == CacheGet(live, Highlight, d, h)
           IsUncached(d) == Cached(d) = None
           uncached == SelectSeq(ids, IsUncached)
           oks == {d \in SeqToSet(uncached) : outcome[d] = "ok"}
           Text(d) == IF Cached(d) # None THEN Cached(d).highlighted_text
                      ELSE IF outcome[d] = "ok" THEN Bold(abstracts[d])
                      ELSE abstracts[d]
           Messages(d) == IF Cached(d) # None THEN Cached(d).messages
                          ELSE IF outcome[d] = "ok" THEN <<d>>
                          ELSE <<>>
           CacheData(d) == [highlighted_text |-> Text(d), messages |-> Messages(d)]
           n == Len(uncached)
       IN  /\ Cardinality(oks) <= oracle_left
           /\ oracle_left' = oracle_left - Cardinality(oks)
           /\ cache' = CacheWrites(cache, Highlight,
                                   [k \in 1..n |-> <<uncached[k], CacheData(uncached[k])>>],
                                   h, n)
           /\ expire_time' =
                 CacheWrites(expire_time, Highlight,
                             [k \in 1..n |->
                                 <<uncached[k],
                                   ExpireTime(expire_time, Highlight,
                                              GenerateKey(uncached[k], h), now)>>],
                             h, n)
           /\ written' =
                 CacheWrites(written, Highlight,
                             [k \in 1..n |-> <<uncached[k], <<CacheData(uncached[k]), now, None>>>>],
                             h, n)
           /\ abstracts' = [d \in Docs |-> IF d \in SeqToSet(ids) THEN Text(d) ELSE abstracts[d]]
           /\ highlight_info' = [d \in SeqToSet(ids) |-> [messages |-> Messages(d)]]
    /\ mpc' = "highlighted"
    /\ UNCHANGED <<besideMain, digest>>

\* JSONExporter._format_stage_result
FormatStageResult(result) ==
    [pass |-> result.pass_filter, score |-> result.score,
     reasoning |-> result.reasoning, messages |-> result.messages]

\* an exporter that marks a stage as reached as soon as it judged the paper
MaxStageJudged(stage, result, old) == stage

\* _prepare_papers_data: "if result['pass_filter']: max_stage = N", on top of
\* the marker the earlier stages left
MaxStage(stage, result, old) == IF result.pass_filter THEN stage ELSE old

\* _prepare_papers_data: papers_map after the loop over stage1_results
RECURSIVE PapersMap1(_, _, _)
PapersMap1(results, ab, k) ==
    IF k = 0 THEN <<>>
    ELSE LET prev == PapersMap1(results, ab, k - 1)
             paper == results[k][1]
             entry == [arxiv_id |-> paper,
                       abstract |-> ab[paper],
                       stage1 |-> FormatStageResult(results[k][2]),
                       stage2 |-> None,
                       stage3 |-> None,
                       highlight |-> None,
                       max_stage |-> MaxStage(1, results[k][2], 0)]
         IN  [id \in DOMAIN prev \cup {paper} |-> IF id = paper THEN entry ELSE prev[id]]

\* _prepare_papers_data: papers_map after the loop over stage2_results
RECURSIVE PapersMap2(_, _, _)
PapersMap2(m, results, k) ==
    IF k = 0 THEN m
    ELSE LET prev == PapersMap2(m, results, k - 1)
             paper == results[k][1]
             result == results[k][2]
         IN  IF paper \in DOMAIN prev
             THEN [prev EXCEPT ![paper] =
                      [@ EXCEPT !.stage2 = FormatStageResult(result),
                                !.max_stage = MaxStage(2, result, @)]]
             ELSE prev

\* _prepare_papers_data: papers_map after the loop over stage3_results
RECURSIVE PapersMap3(_, _, _, _)
PapersMap3(m, results, info, k) ==
    IF k = 0 THEN m
    ELSE LET prev == PapersMap3(m, results, info, k - 1)
             paper == results[k][1]
             result == results[k][2]
         IN  IF result # None /\ paper \in DOMAIN prev
             THEN [prev EXCEPT ![paper] =
                      [@ EXCEPT !.stage3 = FormatStageResult(result),
                                !.max_stage = MaxStage(3, result, @),
                                !.highlight = IF result.pass_filter /\ paper \in DOMAIN info
                                              THEN info[paper] ELSE @]]
             ELSE prev

\* the sort key of _prepare_papers_data: max_stage, then the score of the
\* last stage that judged the paper
SortKey(p) ==
    <<p.max_stage,
      IF p.stage3 # None THEN p.stage3.score
      ELSE IF p.stage2 # None THEN p.stage2.score
      ELSE p.stage1.score>>

KeyGeq(a, b) == a[1] > b[1] \/ (a[1] = b[1] /\ a[2] >= b[2])

\* list.sort(key=..., reverse=True): non-increasing keys, equal keys in their
\* original order
RECURSIVE SortDescending(_)
SortDescending(ps) ==
    IF ps = <<>> THEN <<>>
    ELSE LET x == ps[Len(ps)]
             rest == SortDescending(SubSeq(ps, 1, Len(ps) - 1))
             n == Cardinality({i \in DOMAIN rest : KeyGeq(SortKey(rest[i]), SortKey(x))})
         IN  SubSeq(rest, 1, n) \o <<x>> \o SubSeq(rest, n + 1, Len(rest))

\* JSONExporter._prepare_papers_data
PreparePapersData(results, info, ab) ==
    LET m1 == PapersMap1(results[1], ab, Len(results[1]))
        m2 == PapersMap2(m1, results[2], Len(results[2]))
        m3 == PapersMap3(m2, results[3], info, Len(results[3]))
        ids == [k \in DOMAIN results[1] |-> results[1][k][1]]
    IN  SortDescending([k \in DOMAIN ids |-> m3[ids[k]]])

\* async_main: exporter.export(pipeline_results=results, highlight_info=...)
Export ==
    /\ pc = "Done"
    /\ mpc = "highlighted"
    /\ digest' = PreparePapersData(stage_results, highlight_info, abstracts)
    /\ mpc' = "exported"
    /\ UNCHANGED <<besideMain, oracle_left, cache, expire_time, written, abstracts,
                   highlight_info>>

Work ==
    \/ \E i \in 1..NumDocs : LLMAcquire(i)
    \/ \E i \in 1..NumDocs, sc \in Scores :
           LLMSucceed(i, [score |-> sc, reasoning |-> batch_messages[i].paper])
    \/ \E i \in 1..NumDocs : LLMFail(i)
    \/ CompleteBatchReturn
    \/ \E i \in 1..NumDocs : FetchAcquire(i)
    \/ \E i \in 1..NumDocs, outcome \in Responses : FetchAttempt(i, outcome)
    \/ FetchBatchReturn
    \/ PipelineAdvance

\* one program run from an empty cache
Next ==
    \/ \E cfg \in RunConfigs, ps \in Listings : StartRun(cfg, ps)
    \/ Work

Spec == Init /\ [][Next]_vars

\* FilterPipeline.run called on any list of papers, the empty one included
\* (main.py itself exits before the call when the listing is empty)
AnyListings == Listings \cup {<<>>}

NextAnyListing ==
    \/ \E cfg \in RunConfigs, ps \in AnyListings : StartRun(cfg, ps)
    \/ Work

SpecAnyListing == Init /\ [][NextAnyListing]_vars

\* several program runs over the same cache directory; the oracle gives at
\* most MaxOracleAnswers answers in total and fails afterwards
InitRuns ==
    /\ writes_left = 0
    /\ runs_left = MaxRuns
    /\ oracle_left = MaxOracleAnswers
    /\ InitComponents
    /\ InitAlone
    /\ InitCrawler
    /\ InitCleaner

NextRuns ==
    \/ \E cfg \in RunConfigs, ps \in Listings : StartRun(cfg, ps)
    \/ Work

SpecRuns == InitRuns /\ [][NextRuns]_vars

\* Stage3Filter.filter_batch called on a listing over an empty cache
CallStage3(ps) ==
    /\ pc = "idle"
    /\ fpc = "idle"
    /\ fstage = 0
    /\ EnterFilter(3, ps, config, looked_up, prompted, fetched, invoked)
    /\ UNCHANGED <<cleanerVars, aloneVars, crawlerVars, single, mainVars, ttlVars, cache, runs_left,
                   oracle_left, config, pc, pipelineVars,
                   judged, threshold_at_set>>

\* the crawler under any max_retries and any outcome of each page request;
\* no program run is started and the oracle is not reached
InitFetch ==
    /\ writes_left = 0
    /\ runs_left = 0
    /\ oracle_left = 0
    /\ InitComponents
    /\ InitAlone
    /\ InitCleaner
    /\ max_retries \in 0..MaxRetries
    /\ server = Responses

NextFetch ==
    \/ \E ps \in Listings : CallStage3(ps)
    \/ \E i \in 1..NumDocs : FetchAcquire(i)
    \/ \E i \in 1..NumDocs, outcome \in Responses : FetchAttempt(i, outcome)
    \/ FetchBatchReturn

SpecFetch == InitFetch /\ [][NextFetch]_vars

\* the event loop runs every task that can go on; a request ends with a
\* response, an exception or the ClientTimeout, and a sleep ends
FairFetch ==
    \A i \in 1..NumDocs :
        /\ WF_vars(FetchAcquire(i))
        /\ WF_vars(\E outcome \in Responses : FetchAttempt(i, outcome))

SpecFetchFair == SpecFetch /\ FairFetch /\ WF_vars(FetchBatchReturn)

\* several program runs on the listing of one paper, each under any user
\* prompt and threshold
NextFingerprint ==
    \/ \E cfg \in UniformConfigs, ps \in {l \in Listings : Len(l) = 1} : StartRun(cfg, ps)
    \/ Work

SpecFingerprint == InitRuns /\ [][NextFingerprint]_vars

\* one program run from the listing to the exported digest.  A run in which
\* an oracle call of a stage fails ends in filter_batch and never gets to the
\* highlighter, so the stages' oracle calls are answered here.
NextDigest ==
    \/ \E cfg \in RunConfigs, ps \in Listings : StartRun(cfg, ps)
    \/ \E i \in 1..NumDocs : LLMAcquire(i)
    \/ \E i \in 1..NumDocs, sc \in Scores :
           LLMSucceed(i, [score |-> sc, reasoning |-> batch_messages[i].paper])
    \/ CompleteBatchReturn
    \/ \E i \in 1..NumDocs : FetchAcquire(i)
    \/ \E i \in 1..NumDocs, outcome \in Responses : FetchAttempt(i, outcome)
    \/ FetchBatchReturn
    \/ PipelineAdvance
    \/ \E outcome \in [Docs -> {"ok", "failed"}] :
           \* the highlighter is called for the papers that passed stage 3 only
           /\ \A d \in Docs \ SeqToSet(Stage3PapersMap(stage_results[3])) :
                  outcome[d] = "failed"
           /\ HighlightAbstracts(outcome)
    \/ Export

SpecDigest == Init /\ [][NextDigest]_vars

\* ------------------------------------------- the client used by two callers
\* what a complete call made beside the batch leaves alone
besideSingle ==
    <<cleanerVars, aloneVars,
      crawlerVars, ttlVars, mainVars, html_results, cache, runs_left, config, pc,
      pipelineVars, fpc,
      fpapers, cached_results, uncached_papers, papers_with_text, batch_papers,
      batch_messages, tasks, fetchVars, evaluated_results, all_results,
      valid_results, cache_at_call, looked_up, prompted, fetched, fstage, invoked,
      judged, threshold_at_set>>

\* another coroutine calls AsyncLLMClient.complete on the same client (as
\* filter_stage1/2/3 and AbstractHighlighter.highlight do)
SingleCall ==
    /\ single = "idle"
    /\ single' = "waiting"
    /\ UNCHANGED <<besideSingle, llm_permits, oracle_left>>

\* AsyncLLMClient.complete: "async with self.semaphore" of the single call;
\* it may reach the semaphore before or after any task of the batch
SingleAcquire ==
    /\ single = "waiting"
    /\ PermitAvailable(llm_permits)
    /\ llm_permits' = llm_permits - 1
    /\ single' = "inflight"
    /\ UNCHANGED <<besideSingle, oracle_left>>

\* AsyncLLMClient.complete: the single call's request is answered
SingleSucceed ==
    /\ single = "inflight"
    /\ oracle_left > 0
    /\ oracle_left' = oracle_left - 1
    /\ llm_permits' = llm_permits + 1
    /\ single' = "ok"
    /\ UNCHANGED besideSingle

\* AsyncLLMClient.complete: the single call's request fails and the
\* exception is re-raised to its caller
SingleFail ==
    /\ single = "inflight"
    /\ llm_permits' = llm_permits + 1
    /\ single' = "failed"
    /\ UNCHANGED <<besideSingle, oracle_left>>

\* Stage1Filter.filter_batch called on a listing over an empty cache
CallStage1(ps) ==
    /\ pc = "idle"
    /\ fpc = "idle"
    /\ fstage = 0
    /\ EnterFilter(1, ps, config, looked_up, prompted, fetched, invoked)
    /\ UNCHANGED <<cleanerVars, aloneVars, crawlerVars, single, mainVars, ttlVars, cache, runs_left,
                   oracle_left, config, pc,
                   pipelineVars, judged, threshold_at_set>>

\* one filter_batch call of stage 1 or stage 3 and, on the same client, a
\* single complete call
InitClient ==
    /\ writes_left = 0
    /\ runs_left = 0
    /\ oracle_left = MaxOracleAnswers
    /\ InitComponents
    /\ InitAlone
    /\ InitCrawler
    /\ InitCleaner

NextClient ==
    \/ \E ps \in Listings : CallStage1(ps)
    \/ \E ps \in Listings : CallStage3(ps)
    \/ \E i \in 1..NumDocs : FetchAcquire(i)
    \/ \E i \in 1..NumDocs, outcome \in Responses : FetchAttempt(i, outcome)
    \/ FetchBatchReturn
    \/ \E i \in 1..NumDocs : LLMAcquire(i)
    \/ \E i \in 1..NumDocs, sc \in Scores :
           LLMSucceed(i, [score |-> sc, reasoning |-> batch_messages[i].paper])
    \/ \E i \in 1..NumDocs : LLMFail(i)
    \/ CompleteBatchReturn
    \/ SingleCall
    \/ SingleAcquire
    \/ SingleSucceed
    \/ SingleFail

SpecClient == InitClient /\ [][NextClient]_vars

\* the same calls with a crawler of any max_retries whose page requests can
\* end in every way
InitPools ==
    /\ writes_left = 0
    /\ runs_left = 0
    /\ oracle_left = MaxOracleAnswers
    /\ InitComponents
    /\ InitAlone
    /\ InitCleaner
    /\ max_retries \in 0..MaxRetries
    /\ server = Responses

SpecPools == InitPools /\ [][NextClient]_vars

\* ------------------------------------------------ the cache used directly
\* what the operations of CacheManager leave alone
besideCache ==
    <<cleanerVars, aloneVars,
      crawlerVars, single, mainVars, html_results, runs_left, oracle_left, config, pc,
      pipelineVars, fpc, fpapers, cached_results, uncached_papers,
      papers_with_text, llmVars, fetchVars, evaluated_results, all_results,
      cache_at_call, looked_up, prompted, fetched, fstage, invoked, judged,
      threshold_at_set>>

\* the fingerprint the direct user of the cache passes
UserHash == ConfigHash(InitialConfig)

\* the two papers the direct user stores judgments of
UserPapers == {1, 2}

\* the judgments the direct user stores for a paper: the lowest and the
\* highest score
UserResults(paper_id) ==
    {AddPassFilter([score |-> sc, reasoning |-> paper_id], MaxScore) : sc \in {0, MaxScore}}

\* the history of the sets, per key: the value and the time of the last one
\* and the value it replaced (None when the key had no row)
Record(w, stage, key, value, t) ==
    [w EXCEPT ![stage] =
        [k \in DOMAIN w[stage] \cup {key} |->
            IF k = key
            THEN <<value, t, IF key \in DOMAIN w[stage] THEN w[stage][key][1] ELSE None>>
            ELSE w[stage][k]]]

\* CacheManager.set(stage, paper_id, result, config_hash); the call has no
\* await and diskcache stores the row in one transaction, so a set is one step
Set(stage, paper_id, result) ==
    /\ writes_left > 0
    /\ writes_left' = writes_left - 1
    /\ cache' = CacheSet(cache, stage, paper_id, result, UserHash)
    /\ expire_time' =
          CacheSet(expire_time, stage, paper_id,
                   ExpireTime(expire_time, stage, GenerateKey(paper_id, UserHash), now),
                   UserHash)
    /\ written' = Record(written, stage, GenerateKey(paper_id, UserHash), result, now)
    /\ UNCHANGED <<besideCache, now>>

\* CacheManager.delete(stage, paper_id, config_hash): "if key in cache: del
\* cache[key]"; a key without an unexpired row is left alone
Delete(stage, paper_id) ==
    LET key == GenerateKey(paper_id, UserHash)
    IN  /\ IF key \in DOMAIN Unexpired(cache, expire_time, now)[stage]
           THEN /\ cache' = CacheRemove(cache, stage, key)
                /\ expire_time' = CacheRemove(expire_time, stage, key)
                /\ written' = CacheRemove(written, stage, key)
           ELSE UNCHANGED <<cache, expire_time, written>>
        /\ UNCHANGED <<besideCache, now, writes_left>>

\* CacheManager.clear_stage(stage)
ClearStage(stage) ==
    /\ cache' = CacheClear(cache, stage)
    /\ expire_time' = CacheClear(expire_time, stage)
    /\ written' = CacheClear(written, stage)
    /\ UNCHANGED <<besideCache, now, writes_left>>

\* diskcache culls a row of a partition that has grown over its size_limit
Evict(stage, key) ==
    /\ key \in DOMAIN cache[stage]
    /\ cache' = CacheRemove(cache, stage, key)
    /\ expire_time' = CacheRemove(expire_time, stage, key)
    /\ written' = CacheRemove(written, stage, key)
    /\ UNCHANGED <<besideCache, now, writes_left>>

\* a second passes
Tick ==
    /\ now < MaxTime
    /\ now' = now + 1
    /\ UNCHANGED <<besideCache, cache, expire_time, written, writes_left>>

\* CacheManager over an empty cache directory, used through its own methods
InitCache ==
    /\ writes_left = MaxCacheWrites
    /\ runs_left = 0
    /\ oracle_left = 0
    /\ InitComponents
    /\ InitAlone
    /\ InitCrawler
    /\ InitCleaner

NextCache ==
    \/ \E stage \in Partitions, d \in UserPapers : \E r \in UserResults(d) : Set(stage, d, r)
    \/ \E stage \in Partitions, d \in UserPapers : Delete(stage, d)
    \/ \E stage \in Partitions : ClearStage(stage)
    \/ \E stage \in Partitions, d \in UserPapers : Evict(stage, GenerateKey(d, UserHash))
    \/ Tick

SpecCache == InitCache /\ [][NextCache]_vars

\* ------------------------------------------------ the extractor on a page
besideAlone ==
    <<crawlerVars, single, mainVars, ttlVars, html_results, cache, runs_left, oracle_left,
      config, pc, pipelineVars, fpc, fpapers, cached_results, uncached_papers,
      papers_with_text, llmVars, fetchVars, evaluated_results, all_results,
      cache_at_call, looked_up, prompted, fetched, fstage, invoked, judged,
      threshold_at_set>>

besideCleaner == <<besideAlone, aloneVars>>

\* the elements pages are built from
Heading(level, text) == Tag(level, {"ltx_title"}, <<NavigableString(text)>>)
Citation(author, year) ==
    Tag("cite", {"ltx_cite"},
        <<NavigableString(author \o <<" ", "(">>),
          Tag("a", {"ltx_ref"}, <<NavigableString(year)>>),
          NavigableString(<<")">>)>>)
Paragraph(text, inline) == Tag("p", {"ltx_p"}, <<NavigableString(text)>> \o inline)
Math(tex) ==
    Tag("math", {"ltx_Math"},
        <<Tag("semantics", {},
              <<Tag("mi", {}, <<NavigableString(<<"m">>)>>),
                Annotation("application/x-tex", <<NavigableString(tex)>>)>>)>>)
MathWithoutSource ==
    Tag("math", {"ltx_Math"}, <<Tag("mi", {}, <<NavigableString(<<"m">>)>>)>>)
Cell(class, children) == Tag("td", {"ltx_eqn_cell"} \cup class, children)
EquationTable(tex, number) ==
    Tag("table", {"ltx_equation", "ltx_eqn_table"},
        <<Tag("tr", {"ltx_eqn_row"},
              <<Cell({"ltx_eqn_center_padleft"}, <<>>),
                Cell({}, <<Math(tex)>>),
                Cell({"ltx_eqn_center_padright"}, <<>>)>>
              \o (IF Len(number) = 0 THEN <<>>
                  ELSE <<Cell({"ltx_eqn_eqno"},
                              <<Tag("span", {"ltx_tag_equation"},
                                    <<NavigableString(number)>>)>>)>>))>>)
Page(elements) == Tag("[document]", {}, elements)

\* the fragments of the snippet pages
HeadingTexts == {<<"I", "n">>, <<"1", "I", "n">>, <<"1", " ", "I", "n">>}
ParagraphTexts == {<<"o", "n", " ", "x">>, <<"W", "e">>}
TexSources == {<<"x">>, <<"a", "^", "2">>}
Author == <<"L", "i">>
Year == <<"2", "0">>
EquationNumber == <<"(", "1", ")">>

\* a page with one heading, one paragraph, one equation table and one
\* citation, the citation inside the paragraph or after the equation, the
\* paragraph before or after the heading
SnippetParams ==
    [heading : HeadingTexts, level : {"h2", "h3"}, paragraph : ParagraphTexts,
     tex : TexSources, numbered : BOOLEAN, cite_inside : BOOLEAN,
     heading_first : BOOLEAN]
Snippet(q) ==
    LET heading == Heading(q.level, q.heading)
        citation == Citation(Author, Year)
        paragraph == Paragraph(q.paragraph, IF q.cite_inside THEN <<citation>> ELSE <<>>)
        equation == EquationTable(q.tex, IF q.numbered THEN EquationNumber ELSE <<>>)
    IN  Page((IF q.heading_first THEN <<heading, paragraph>> ELSE <<paragraph, heading>>)
             \o <<equation>> \o (IF q.cite_inside THEN <<>> ELSE <<citation>>))
Snippets == {Snippet(q) : q \in SnippetParams}

\* the elements of the other pages
Pool ==
    {Heading("h1", <<"3", "D">>),
     Paragraph(<<"o", "n", " ", " ", "x">>, <<Math(<<"x">>)>>),
     Paragraph(<<"s", "e", "e">>, <<Tag("a", {"ltx_ref"}, <<NavigableString(<<"6">>)>>)>>),
     NavigableString(<<" ", "t", NL>>),
     Tag("script", {}, <<NavigableString(<<"v">>)>>),
     Tag("span", {"ltx_note"}, <<NavigableString(<<"n">>)>>),
     Tag("article", {}, <<Paragraph(<<"W", "e">>, <<>>)>>),
     Tag("ul", {}, <<Tag("li", {}, <<NavigableString(<<"a">>)>>),
                     Tag("li", {}, <<NavigableString(<<"b">>)>>)>>),
     Tag("figure", {}, <<Tag("figcaption", {}, <<NavigableString(<<"c">>)>>)>>),
     Tag("table", {}, <<Tag("caption", {}, <<NavigableString(KindTable)>>),
                        Tag("tr", {}, <<Tag("td", {}, <<NavigableString(<<"a">>)>>),
                                        Tag("td", {}, <<NavigableString(<<"b">>)>>)>>)>>),
     EquationTable(<<"x">>, EquationNumber),
     MathWithoutSource,
     Citation(Author, Year)}

RECURSIVE SeqsUpTo(_, _)
SeqsUpTo(S, n) ==
    IF n = 0 THEN {<<>>}
    ELSE LET shorter == SeqsUpTo(S, n - 1)
         IN  shorter \cup {Append(s, x) : s \in shorter, x \in S}
Pages == {Page(elements) : elements \in SeqsUpTo(Pool, MaxElements)} \cup Snippets

\* Stage3Filter.__init__'s default max_text_chars
DefaultMaxTextChars == 8000
Budgets == {<<>>, <<DefaultMaxTextChars>>} \cup {<<n>> : n \in 0..MaxChars}

\* html_cleaner.clean(html) as Stage3Filter.filter_batch calls it
CleanHtml ==
    /\ cleaned = <<>>
    /\ cleaned' = <<Clean(html, max_chars)>>
    /\ UNCHANGED <<besideCleaner, html, max_chars, raw_text, normalized>>

\* a cleaner built with any budget, given any page
InitClean ==
    /\ html \in Pages
    /\ max_chars \in Budgets
    /\ cleaned = <<>>
    /\ raw_text = <<>>
    /\ normalized = <<>>
    /\ writes_left = 0
    /\ runs_left = 0
    /\ oracle_left = 0
    /\ InitComponents
    /\ InitAlone
    /\ InitCrawler

NextClean == CleanHtml

SpecClean == InitClean /\ [][NextClean]_vars

\* the characters of the texts given to _normalize_whitespace: a space, a
\* newline, a header's hash, a digit and a capital letter
TextAlphabet == {" ", NL, "#", "1", "A"}

\* every text of at most MaxTextLen characters
Texts == UNION {[1..n -> TextAlphabet] : n \in 0..MaxTextLen}

\* self._normalize_whitespace(text)
Normalize ==
    /\ normalized = <<>>
    /\ normalized' = <<NormalizeWhitespace(raw_text)>>
    /\ UNCHANGED <<besideCleaner, html, max_chars, cleaned, raw_text>>

\* _normalize_whitespace given any text
InitNormalize ==
    /\ raw_text \in Texts
    /\ normalized = <<>>
    /\ html = EmptyPage
    /\ max_chars = <<>>
    /\ cleaned = <<>>
    /\ writes_left = 0
    /\ runs_left = 0
    /\ oracle_left = 0
    /\ InitComponents
    /\ InitAlone
    /\ InitCrawler

NextNormalize == Normalize

SpecNormalize == InitNormalize /\ [][NextNormalize]_vars

\* -------------------------------------------------- the cache key as text
\* the characters of the ids and fingerprints given to _generate_key
KeyAlphabet == {"a", ":"}

KeyStrings(lo) == UNION {[1..n -> KeyAlphabet] : n \in lo..MaxKeyLen}

\* paper ids: the non-empty strings
PaperIds == KeyStrings(1)

\* config_hash: None (<<>>) or a string, the empty one included (<<s>>)
ConfigHashes == {<<>>} \cup {<<h>> : h \in KeyStrings(0)}

\* CacheManager._generate_key on the characters of its arguments:
\* f"{paper_id}:{config_hash}" under "if config_hash", else paper_id.
\* GenerateKey above is this function on the arguments the pipeline passes
\* (arXiv ids without ":", a non-empty hexadecimal digest or no digest).
GenerateKeyString(paper_id, config_hash) ==
    IF Len(config_hash) > 0 /\ Len(config_hash[1]) > 0
    THEN paper_id \o <<":">> \o config_hash[1]
    ELSE paper_id

\* a call that has not returned: its arguments, and no key yet
KeyCall(args) == [paper_id |-> args[1], config_hash |-> args[2], key |-> <<>>]

\* the two calls of _generate_key return
GenerateKeys ==
    /\ key_calls # <<>>
    /\ \A i \in DOMAIN key_calls : key_calls[i].key = <<>>
    /\ key_calls' =
          [i \in DOMAIN key_calls |->
              [key_calls[i] EXCEPT
                  !.key = <<GenerateKeyString(key_calls[i].paper_id,
                                              key_calls[i].config_hash)>>]]
    /\ UNCHANGED <<besideAlone, cleanerVars, scorer>>

\* two calls of _generate_key, as get and set make them, with any arguments
InitKeys ==
    /\ key_calls \in {<<KeyCall(a), KeyCall(b)>> : a, b \in PaperIds \X ConfigHashes}
    /\ scorer = IdleScorer
    /\ writes_left = 0
    /\ runs_left = 0
    /\ oracle_left = 0
    /\ InitComponents
    /\ InitCrawler
    /\ InitCleaner

NextKeys == GenerateKeys

SpecKeys == InitKeys /\ [][NextKeys]_vars

\* ------------------------------------------- the single-pass relevancy scorer
\* PaperRelevancy.relevancy_score: an integer from 1 up
RelevancyScores == 1..(MaxScore + 1)

\* threshold_score: a score, or one more than the highest
ThresholdScores == 1..(MaxScore + 2)

\* the papers given to generate_relevance_score: the first n, or none
ScorerPapers == {[i \in 1..n |-> i] : n \in 0..NumDocs}

\* response.papers for a batch of k papers: a list of scores that may be
\* shorter or longer than the batch
ResponseLists(k) == UNION {[1..m -> RelevancyScores] : m \in 0..(k + 1)}

\* papers[batch_idx : batch_idx + num_papers_per_batch]
BatchOf(ps, batch_idx, n) == SubSeq(ps, batch_idx + 1, Min(batch_idx + n, Len(ps)))

\* llm_client.assess_papers_relevancy: the scores merged into copies of the
\* papers, for the indexes the response has
AssessPapersRelevancy(batch, scores) ==
    [i \in 1..Min(Len(batch), Len(scores)) |-> [id |-> batch[i], score |-> scores[i]]]

\* "if paper.get('Relevancy score', 0) >= threshold_score"
FilterByThreshold(scored_papers, threshold_score) ==
    LET Relevant(paper) == paper.score >= threshold_score
    IN  SelectSeq(scored_papers, Relevant)

\* a loop that ends at the first batch whose call raises ("break")
BreakOnError(batch_idx, n, total) == total

\* "except Exception: ... continue": the loop goes on with the next batch
ContinueOnError(batch_idx, n, total) == batch_idx + n

\* list.sort(key=score, reverse=True): descending and stable
RECURSIVE SortByScore(_)
SortByScore(ps) ==
    IF ps = <<>> THEN <<>>
    ELSE LET sorted == SortByScore(SubSeq(ps, 1, Len(ps) - 1))
             last == ps[Len(ps)]
             k == Cardinality({i \in DOMAIN sorted : sorted[i].score >= last.score})
         IN  SubSeq(sorted, 1, k) \o <<last>> \o SubSeq(sorted, k + 1, Len(sorted))

\* generate_relevance_score(papers, standard, ..., threshold_score,
\* num_papers_per_batch) up to its loop
CallScorer(ps, threshold_score, n) ==
    /\ scorer.pc = "idle"
    /\ scorer' = [pc |-> "loop", papers |-> ps, threshold_score |-> threshold_score,
                  num_papers_per_batch |-> n, batch_idx |-> 0,
                  filtered_papers |-> <<>>, responses |-> <<>>, result |-> <<>>]
    /\ UNCHANGED <<besideAlone, cleanerVars, key_calls>>

\* one pass of the loop in which assess_papers_relevancy returns: the papers
\* of the batch at or above the threshold are appended
ScoreBatch(scores) ==
    /\ scorer.pc = "loop"
    /\ scorer.batch_idx < Len(scorer.papers)
    /\ LET batch == BatchOf(scorer.papers, scorer.batch_idx,
                            scorer.num_papers_per_batch)
           scored_papers == AssessPapersRelevancy(batch, scores)
       IN  /\ scores \in ResponseLists(Len(batch))
           /\ scorer' =
                 [scorer EXCEPT
                     !.filtered_papers =
                         @ \o FilterByThreshold(scored_papers, scorer.threshold_score),
                     !.batch_idx = @ + scorer.num_papers_per_batch,
                     !.responses = Append(@, [raised |-> FALSE, scores |-> scores])]
    /\ UNCHANGED <<besideAlone, cleanerVars, key_calls>>

\* one pass of the loop in which assess_papers_relevancy raises
ScoreBatchRaises ==
    /\ scorer.pc = "loop"
    /\ scorer.batch_idx < Len(scorer.papers)
    /\ scorer' =
          [scorer EXCEPT
              !.batch_idx = ContinueOnError(@, scorer.num_papers_per_batch,
                                            Len(scorer.papers)),
              !.responses = Append(@, [raised |-> TRUE, scores |-> <<>>])]
    /\ UNCHANGED <<besideAlone, cleanerVars, key_calls>>

\* generate_relevance_score after its loop: the sort and the return
ReturnScores ==
    /\ scorer.pc = "loop"
    /\ scorer.batch_idx >= Len(scorer.papers)
    /\ scorer' = [scorer EXCEPT !.pc = "returned",
                                !.result = SortByScore(scorer.filtered_papers)]
    /\ UNCHANGED <<besideAlone, cleanerVars, key_calls>>

InitScorer ==
    /\ writes_left = 0
    /\ runs_left = 0
    /\ oracle_left = 0
    /\ InitComponents
    /\ InitAlone
    /\ InitCrawler
    /\ InitCleaner

NextScorer ==
    \/ \E ps \in ScorerPapers, th \in ThresholdScores, n \in 1..NumDocs : CallScorer(ps, th, n)
    \/ \E scores \in ResponseLists(NumDocs) : ScoreBatch(scores)
    \/ ScoreBatchRaises
    \/ ReturnScores

SpecScorer == InitScorer /\ [][NextScorer]_vars

\* ------------------------------------------------------------ properties
InCall == fpc \in {"fetch", "llm", "returned", "raised"}
BatchEnded == fpc \in {"returned", "raised"} /\ tasks # <<>>
CurrentKey(d) == GenerateKey(d, ConfigHash(config))
CurrentThreshold == StageThreshold(config, fstage)

\* C1: a paper whose (stage, id, fingerprint) entry is in the cache when
\* filter_batch starts gets no prompt submitted and (stage 3) no fetch
\* issued during the call, and the returned list pairs it with exactly the
\* cached value.
C1_CachedPaperIsNotReevaluated ==
    InCall =>
        \A i \in DOMAIN fpapers :
            LET d == fpapers[i]
                key == CurrentKey(d)
            IN  key \in DOMAIN cache_at_call[fstage] =>
                    /\ d \notin prompted[fstage]
                    /\ d \notin SeqToSet(batch_papers)
                    /\ fstage = 3 => /\ d \notin fetched
                                     /\ \A j \in DOMAIN ftasks : ftasks[j].id # d
                    /\ fpc = "returned" =>
                          /\ \E k \in DOMAIN all_results :
                                all_results[k] = <<d, cache_at_call[fstage][key]>>
                          /\ \A k \in DOMAIN all_results :
                                all_results[k][1] = d =>
                                    all_results[k][2] = cache_at_call[fstage][key]

\* a call returned in which one paper was served from the cache while a
\* sibling was sent to the oracle
C1_Witness ==
    /\ fpc = "returned"
    /\ tasks # <<>>
    /\ \E i \in DOMAIN fpapers : CurrentKey(fpapers[i]) \in DOMAIN cache_at_call[fstage]

\* C2: an oracle failure for one cache-miss paper does not abort
\* filter_batch: the call returns, every sibling whose oracle call succeeded
\* is paired with its own judgment and cached, and the failed paper is only
\* missing from the passed set.
C2_OracleFailureDoesNotAbortFilterBatch ==
    BatchEnded =>
        /\ fpc = "returned"
        /\ \A i \in DOMAIN tasks :
              LET rd == PrepareResultWithConversation(
                            tasks[i].response, CurrentThreshold, batch_messages[i])
              IN  /\ tasks[i].st = "ok" =>
                        /\ <<batch_papers[i], rd>> \in SeqToSet(all_results)
                        /\ CacheGet(cache, fstage, batch_papers[i], ConfigHash(config)) = rd
                  /\ tasks[i].st = "failed" =>
                        batch_papers[i] \notin SeqToSet(StagePassed(fstage, all_results))

\* C3: the result the caller associates with the i-th submitted prompt is
\* the oracle's answer to that i-th prompt, whatever the completion order and
\* also when another request of the batch failed.
C3_ResultKeepsRequestIndex ==
    BatchEnded =>
        /\ \A i \in DOMAIN valid_results :
              /\ tasks[i].st = "ok"
              /\ valid_results[i] = tasks[i].response
        /\ \A k \in DOMAIN evaluated_results :
              evaluated_results[k][2].messages[2]
                  \in OracleAnswers(evaluated_results[k][2].messages[1])

\* C4: complete_batch does not raise when items fail and returns exactly the
\* answers of the items that succeeded, in request order, each as the oracle
\* gave it; with one failure among N prompts these are N-1 results.
OkIndexes == {i \in DOMAIN tasks : tasks[i].st = "ok"}
KthOk(k) == CHOOSE i \in OkIndexes : Cardinality({j \in OkIndexes : j <= i}) = k
C4_CompleteBatchReturnsTheSuccesses ==
    BatchEnded =>
        /\ Len(valid_results) = Cardinality(OkIndexes)
        /\ \A k \in DOMAIN valid_results : valid_results[k] = tasks[KthOk(k)].response

\* a batch of two prompts ended with exactly one failed item
C4_Witness ==
    /\ BatchEnded
    /\ Len(tasks) = 2
    /\ Cardinality(OkIndexes) = 1
    /\ Len(valid_results) = 1

\* C5: every judgment a stage's filter_batch returns, fresh or cached, has
\* pass_filter = (score >= the stage's threshold of the current run).
C5_PassFilterMatchesThreshold ==
    /\ fpc = "returned" =>
          \A k \in DOMAIN all_results :
              LET r == all_results[k][2]
              IN  r # None => (r.pass_filter <=> r.score >= CurrentThreshold)
    /\ \A s \in Stages : \A k \in DOMAIN stage_results[s] :
          LET r == stage_results[s][k][2]
          IN  r # None => (r.pass_filter <=> r.score >= StageThreshold(config, s))

\* a call returned a judgment for a paper while the cache still holds, under
\* the fingerprint of another threshold, an entry for that paper whose pass
\* flag is wrong for the current threshold
C5_Witness ==
    /\ fpc = "returned"
    /\ \E k \in DOMAIN all_results :
          /\ all_results[k][2] # None
          /\ \E key \in DOMAIN cache[fstage] :
                /\ key[1] = all_results[k][1]
                /\ key # CurrentKey(all_results[k][1])
                /\ cache[fstage][key].pass_filter
                      # (cache[fstage][key].score >= CurrentThreshold)
\* the papers of a results list whose judgment is present and passed
PassedSet(results) ==
    {results[k][1] : k \in {j \in DOMAIN results :
                              results[j][2] # None /\ results[j][2].pass_filter}}

\* C6: the list passed to Stage 2 filter_batch holds exactly the papers whose
\* Stage 1 judgment has pass_filter true, and the list passed to Stage 3
\* exactly those whose Stage 2 judgment has pass_filter true.
C6_StageInputIsPreviousPassedSet ==
    \A s \in {2, 3} :
        (fstage = s /\ pc # "idle") =>
            SeqToSet(fpapers) = PassedSet(stage_results[s - 1])

\* Stage 2 is working on fewer papers than the run was given
C6_Witness ==
    /\ fstage = 2
    /\ fpc = "llm"
    /\ Len(fpapers) < Len(papers)

\* the papers some Stage s action (cache lookup, fetch, oracle request) has
\* touched in this run
TouchedAt(s) ==
    looked_up[s] \cup prompted[s]
        \cup (IF s = 3 THEN fetched ELSE {})
        \cup (IF fstage = s
              THEN SeqToSet(batch_papers) \cup {ftasks[i].id : i \in DOMAIN ftasks}
              ELSE {})

\* C7: no Stage N+1 cache lookup, fetch or oracle request for a paper
\* happens before that paper's Stage N judgment exists with pass_filter true.
C7_NoNextStageActionBeforePass ==
    \A s \in {2, 3} : TouchedAt(s) \subseteq PassedSet(stage_results[s - 1])

\* Stage 2 has sent prompts while a paper of the run did not pass Stage 1
C7_Witness ==
    /\ prompted[2] # {}
    /\ \E d \in SeqToSet(papers) : d \notin PassedSet(stage_results[1])

\* stage s returned its results to run in the current run
Completed(s) == pc = "Done" \/ (pc # "idle" /\ fstage > s)

\* C8: when no paper survives a stage, the later stages are never invoked (no
\* cache lookup, fetch or oracle call) and the run returns with an empty
\* results list and an empty passed list for each of them.
C8_EmptySurvivorSetSkipsLaterStages ==
    \A s \in {1, 2} :
        (Completed(s) /\ stage_passed[s] = <<>>) =>
            /\ pc = "Done"
            /\ \A t \in (s + 1)..3 :
                  /\ t \notin invoked
                  /\ TouchedAt(t) = {}
                  /\ stage_results[t] = <<>>
                  /\ stage_passed[t] = <<>>

\* the run returned after a Stage 2 that judged papers and passed none
C8_Witness ==
    /\ pc = "Done"
    /\ stage_passed[1] # <<>>
    /\ stage_results[2] # <<>>
    /\ stage_passed[2] = <<>>

\* C9: in Stage 3 a cache-miss paper whose fetch yields None is added to the
\* results with a None judgment and is not in stage3_passed, while every
\* sibling is fetched and every sibling with a page is sent to the oracle
\* and returned with a judgment.
C9_FetchFailureIsUnevaluatedNotFatal ==
    /\ (fstage = 3 /\ fpc = "fetch") =>
          [i \in DOMAIN ftasks |-> ftasks[i].id] = uncached_papers
    /\ (fstage = 3 /\ fpc \in {"llm", "returned", "raised"}) =>
          \A i \in DOMAIN ftasks :
              IF ftasks[i].result = None
              THEN /\ <<ftasks[i].id, None>> \in SeqToSet(cached_results)
                   /\ ftasks[i].id \notin SeqToSet(batch_papers)
              ELSE /\ ftasks[i].id \in SeqToSet(batch_papers)
                   /\ ftasks[i].id \in prompted[3]
    /\ (fstage = 3 /\ pc = "Done") =>
          \A i \in DOMAIN ftasks :
              IF ftasks[i].result = None
              THEN /\ <<ftasks[i].id, None>> \in SeqToSet(stage_results[3])
                   /\ ftasks[i].id \notin SeqToSet(stage_passed[3])
              ELSE \E k \in DOMAIN stage_results[3] :
                      /\ stage_results[3][k][1] = ftasks[i].id
                      /\ stage_results[3][k][2] # None

\* the run returned after a Stage 3 in which one fetch yielded None and a
\* sibling was fetched and judged
C9_Witness ==
    /\ pc = "Done"
    /\ fstage = 3
    /\ \E i \in DOMAIN ftasks : ftasks[i].result = None
    /\ \E i \in DOMAIN ftasks : 
          /\ ftasks[i].result # None
          /\ \E k \in DOMAIN stage_results[3] :
                /\ stage_results[3][k][1] = ftasks[i].id
                /\ stage_results[3][k][2] # None

\* C10: for every non-empty input list and every pattern of fetch and oracle
\* failures the run reaches Done and returns its six lists instead of
\* raising, the unevaluated papers being only missing from the passed lists.
C10_RunReturnsInsteadOfRaising ==
    /\ pc # "raised"
    /\ pc = "Done" =>
          \A s \in Stages :
              SeqToSet(stage_passed[s]) \subseteq PassedSet(stage_results[s])

\* the papers the current call sent to the oracle and got an answer for
AnsweredNow == {batch_papers[i] : i \in {j \in DOMAIN tasks : tasks[j].st = "ok"}}

\* the answers the oracle gave for paper d's current key in earlier calls
EarlierAnswers(d) ==
    LET key == CurrentKey(d)
        all == IF key \in DOMAIN judged[fstage] THEN judged[fstage][key] ELSE <<>>
    IN  IF d \in AnsweredNow THEN SubSeq(all, 1, Len(all) - 1) ELSE all

\* C11: when an earlier filter_batch call of the stage got the oracle's answer
\* for a paper under the current fingerprint, the paper is a cache hit in this
\* call, no prompt is sent for it, and the call returns the score of that
\* answer with the same pass flag.
C11_SecondCallIsCacheHit ==
    InCall =>
        \A i \in DOMAIN fpapers :
            LET d == fpapers[i]
                first == EarlierAnswers(d)
            IN  first # <<>> =>
                    /\ d \notin SeqToSet(uncached_papers)
                    /\ d \notin SeqToSet(batch_papers)
                    /\ fpc = "returned" =>
                          \E k \in DOMAIN all_results :
                              /\ all_results[k][1] = d
                              /\ all_results[k][2] # None
                              /\ all_results[k][2].score = first[1].score
                              /\ all_results[k][2].pass_filter
                                    = AddPassFilter(first[1], CurrentThreshold).pass_filter

\* the papers of the cache at the start of the call that have an entry of
\* this stage, and the prompts their entries were judged under
EntriesAtCall(d) == {k \in DOMAIN cache_at_call[fstage] : k[1] = d}
PromptOf(result) == result.messages[1].user_prompt

\* C12: a paper whose entries of the stage were all cached under another user
\* prompt is a cache miss under the current fingerprint and is evaluated
\* again: it is fetched (stage 3) or its prompt is submitted, and a judgment
\* returned for it was made under the current user prompt.
C12_ChangedFingerprintIsMiss ==
    InCall =>
        \A i \in DOMAIN fpapers :
            LET d == fpapers[i]
            IN  (\A k \in EntriesAtCall(d) :
                     PromptOf(cache_at_call[fstage][k]) # config.user_prompt) =>
                    /\ d \in SeqToSet(uncached_papers)
                    /\ IF fstage = 3
                       THEN d \in fetched
                       ELSE d \in SeqToSet(batch_papers) /\ d \in prompted[fstage]
                    /\ fpc = "returned" =>
                          \A k \in DOMAIN all_results :
                              (all_results[k][1] = d /\ all_results[k][2] # None) =>
                                  PromptOf(all_results[k][2]) = config.user_prompt

\* a call returned a fresh judgment for a paper that had an entry of the
\* stage under another user prompt when the call began
C12_Witness ==
    /\ fpc = "returned"
    /\ \E i \in DOMAIN fpapers :
          /\ EntriesAtCall(fpapers[i]) # {}
          /\ \A k \in EntriesAtCall(fpapers[i]) :
                PromptOf(cache_at_call[fstage][k]) # config.user_prompt
          /\ fpapers[i] \in AnsweredNow

\* C13: every judgment a call takes from the cache was written by a run whose
\* threshold for the stage is the threshold of the current run, so no pass
\* flag computed under another threshold is returned.
C13_OldThresholdEntryIsNotReturned ==
    InCall =>
        \A k \in DOMAIN cached_results :
            LET d == cached_results[k][1]
                r == cached_results[k][2]
            IN  r # None =>
                    \E key \in EntriesAtCall(d) :
                        /\ cache_at_call[fstage][key] = r
                        /\ threshold_at_set[fstage][key] = CurrentThreshold

\* a call returned a judgment for a paper while the cache held, from the
\* start of the call, an entry of the paper written under another threshold
C13_Witness ==
    /\ fpc = "returned"
    /\ \E k \in DOMAIN all_results :
          /\ all_results[k][2] # None
          /\ \E key \in EntriesAtCall(all_results[k][1]) :
                threshold_at_set[fstage][key] # CurrentThreshold

\* C14: the oracle gives at most one answer for a (paper, stage, fingerprint)
\* triple: once it has answered, every later request is served from the cache.
C14_OracleAnswersOncePerTriple ==
    \A s \in Stages : \A key \in DOMAIN judged[s] : Len(judged[s][key]) <= 1

\* the fetch_html tasks that hold a permit: a request outstanding or a retry
\* delay being slept
InFlight == {i \in DOMAIN ftasks : ftasks[i].st \in {"inflight", "sleeping"}}

\* C15: a page request answered with status 404 ends the fetch with None: no
\* retry follows and no retry delay is slept after it, so a fetch whose first
\* response is 404 has made exactly one attempt and slept none.
C15_NotFoundIsNotRetried ==
    \A i \in DOMAIN ftasks :
        ftasks[i].last = "not_found" =>
            /\ ftasks[i].st = "done"
            /\ ftasks[i].result = None
            /\ ftasks[i].slept = ftasks[i].attempt - 1
            /\ ftasks[i].attempt = 1 => ftasks[i].slept = 0

\* a fetch returned after one attempt answered 404 although retries were left
C15_Witness ==
    \E i \in DOMAIN ftasks :
        /\ ftasks[i].last = "not_found"
        /\ ftasks[i].st = "done"
        /\ ftasks[i].attempt = 1
        /\ max_retries > 1

\* C16: a fetch whose attempts all end in a timeout or a client error returns
\* None only after exactly max_retries attempts, one retry delay slept between
\* two consecutive attempts, and never makes more than max_retries attempts.
C16_TimeoutsExhaustRetries ==
    \A i \in DOMAIN ftasks :
        LET t == ftasks[i]
        IN  /\ t.attempt <= max_retries
            /\ t.st = "inflight" => (t.attempt < max_retries /\ t.slept = t.attempt)
            /\ t.st = "sleeping" =>
                  /\ t.last \in {"timeout", "client_error"}
                  /\ t.attempt < max_retries
                  /\ t.slept = t.attempt
            /\ (t.st = "done" /\ t.last \in {"timeout", "client_error"}) =>
                  /\ t.result = None
                  /\ t.attempt = max_retries
                  /\ t.slept = max_retries - 1

\* a fetch returned None after timing out on each of several attempts
C16_Witness ==
    \E i \in DOMAIN ftasks :
        /\ ftasks[i].st = "done"
        /\ ftasks[i].last = "timeout"
        /\ ftasks[i].attempt = max_retries
        /\ ftasks[i].slept >= 1

\* C17: an unexpected exception in a page request ends the fetch with None:
\* no further attempt is made, no delay is slept, and fetch_batch's caller
\* gets None for the id instead of the exception.
C17_UnexpectedErrorEndsFetch ==
    \A i \in DOMAIN ftasks :
        ftasks[i].last = "unexpected" =>
            /\ ftasks[i].st = "done"
            /\ ftasks[i].result = None
            /\ ftasks[i].slept = ftasks[i].attempt - 1
            /\ fpc # "raised"
            /\ ftasks[i].id \in DOMAIN html_results => html_results[ftasks[i].id] = None

\* fetch_batch returned after a fetch hit an unexpected exception with
\* retries left
C17_Witness ==
    /\ fpc \in {"llm", "returned"}
    /\ \E i \in DOMAIN ftasks :
          /\ ftasks[i].last = "unexpected"
          /\ ftasks[i].attempt < max_retries

\* C18: fetch_batch returns, without raising, a dict with exactly one entry
\* per requested id: the page when the id's fetch got one, None otherwise.
C18_FetchBatchReturnsOneEntryPerId ==
    /\ fpc # "raised"
    /\ (fstage = 3 /\ fpc \in {"llm", "returned"} /\ ftasks # <<>>) =>
          /\ DOMAIN html_results = SeqToSet(uncached_papers)
          /\ \A i \in DOMAIN ftasks :
                html_results[ftasks[i].id] =
                    IF ftasks[i].last = "ok" THEN Html(ftasks[i].id) ELSE None

\* fetch_batch returned for two ids, one with its page and one without
C18_Witness ==
    /\ fstage = 3
    /\ fpc \in {"llm", "returned"}
    /\ \E i, j \in DOMAIN ftasks :
          /\ ftasks[i].last = "ok"
          /\ ftasks[j].last # "ok"
          /\ html_results[ftasks[j].id] = None

\* C19: at most max_concurrent fetches hold a permit (a request outstanding
\* or a retry delay being slept) in every state.
C19_FetchesInFlightAtMostMaxConcurrent ==
    /\ Cardinality(InFlight) <= CrawlerMaxConcurrent
    /\ fetch_permits >= 0

\* the pool is used up by a fetch that sleeps before a retry while another
\* id of the batch waits for a permit
C19_Witness ==
    /\ Cardinality(InFlight) = CrawlerMaxConcurrent
    /\ \E i \in DOMAIN ftasks : ftasks[i].st = "sleeping"
    /\ \E i \in DOMAIN ftasks : ftasks[i].st = "waiting"

\* C20: under fair scheduling every id of a fetch_batch call has its fetch
\* completed, whatever the other ids' fetches do.
C20_EveryFetchCompletes ==
    \A i \in 1..NumDocs :
        (i \in DOMAIN ftasks) ~> (i \in DOMAIN ftasks /\ ftasks[i].st = "done")

\* in a batch larger than the pool a fetch ran out of retries and a fetch
\* after it got its page
C20_Witness ==
    /\ Len(ftasks) > CrawlerMaxConcurrent
    /\ \E i, j \in DOMAIN ftasks :
          /\ i < j
          /\ ftasks[i].st = "done"
          /\ ftasks[i].last \in {"timeout", "client_error"}
          /\ ftasks[i].slept >= 1
          /\ ftasks[j].last = "ok"

\* the oracle requests outstanding on the client: the batch's and the single
\* call's
OracleInFlight ==
    Cardinality({i \in DOMAIN tasks : tasks[i].st = "inflight"})
        + (IF single = "inflight" THEN 1 ELSE 0)

\* C21: the number of oracle requests in flight never exceeds the client's
\* max_concurrent, whatever the batch size and the interleaving, also when a
\* single complete call runs beside a complete_batch call on the same client.
C21_OracleRequestsInFlightAtMostMaxConcurrent ==
    /\ OracleInFlight <= LLMMaxConcurrent
    /\ llm_permits >= 0
    /\ llm_permits + OracleInFlight = LLMMaxConcurrent

\* the pool is used up while a request of the batch or the single call waits
\* for a permit, the single call holding one of the permits
C21_Witness ==
    /\ OracleInFlight = LLMMaxConcurrent
    /\ single = "inflight"
    /\ \E i \in DOMAIN tasks : tasks[i].st = "waiting"

\* C22: the fetch pool and the oracle pool are separate resources of
\* independent sizes: each pool's free permits plus its own holders equal its
\* own configured size, a step of a fetch (acquire, retry, release) leaves
\* the oracle permits as they are, and a step of an oracle request leaves the
\* fetch permits as they are.
C22_PermitPoolsAreIndependent ==
    /\ [](fetch_permits + Cardinality(InFlight) = CrawlerMaxConcurrent)
    /\ [](llm_permits + OracleInFlight = LLMMaxConcurrent)
    /\ [][/\ (ftasks' # ftasks => llm_permits' = llm_permits)
          /\ ((tasks' # tasks \/ single' # single) => fetch_permits' = fetch_permits)
          /\ (fetch_permits' = fetch_permits \/ llm_permits' = llm_permits)]_vars

\* a fetch holds the only fetch permit while an oracle request holds an
\* oracle permit and another oracle permit is free
C22_Witness ==
    /\ InFlight # {}
    /\ fetch_permits = 0
    /\ single = "inflight"
    /\ llm_permits > 0

\* what CacheManager.get returns now for a paper under the user's fingerprint
GetNow(stage, paper_id) ==
    CacheGet(Unexpired(cache, expire_time, now), stage, paper_id, UserHash)

\* C23: an entry written by set at time t, and neither deleted, cleared nor
\* evicted since, is returned by get at every time before t + TTL and is
\* absent from t + TTL on; the time of the last set of the key counts, so an
\* overwrite restarts the TTL.
C23_EntryLivesForItsTTL ==
    \A stage \in Partitions : \A d \in UserPapers :
        LET key == GenerateKey(d, UserHash)
        IN  key \in DOMAIN written[stage] =>
                LET value == written[stage][key][1]
                    t == written[stage][key][2]
                IN  GetNow(stage, d) = IF now < t + ExpireSeconds THEN value ELSE None

\* an entry set after time 0 is still returned at a time at which the TTL of
\* a set made at time 0 is over
C23_Witness ==
    \E stage \in Partitions : \E d \in UserPapers :
        LET key == GenerateKey(d, UserHash)
        IN  /\ key \in DOMAIN written[stage]
            /\ written[stage][key][2] > 0
            /\ now >= ExpireSeconds
            /\ GetNow(stage, d) = written[stage][key][1]

\* C24: the partitions are independent: a step that changes the rows of one
\* partition (a set, a delete, a clear_stage, an eviction) leaves the rows and
\* the expire times of every other partition as they are, so that one key
\* can hold different values in different partitions.
C24_PartitionsAreIndependent ==
    [][\A s \in Partitions :
          (cache'[s] # cache[s] \/ expire_time'[s] # expire_time[s]) =>
              \A t \in Partitions \ {s} :
                  /\ cache'[t] = cache[t]
                  /\ expire_time'[t] = expire_time[t]]_vars

\* one key holds a value in the partition of a stage and another value in
\* the highlight partition
C24_Witness ==
    \E s \in Stages : \E d \in UserPapers :
        /\ GetNow(s, d) # None
        /\ GetNow(Highlight, d) # None
        /\ GetNow(s, d) # GetNow(Highlight, d)

\* the rows of every partition as (partition, key) pairs
Rows(c) ==
    {sk \in Partitions \X UNION {DOMAIN c[p] : p \in Partitions} : sk[2] \in DOMAIN c[sk[1]]}

\* C25: writes to one key are last-writer-wins and whole: whatever sets were
\* made, a value get returns for a key is exactly the value of the last set
\* call on that key, one of the values a caller passed, never a mixture; and
\* a set on one key leaves the value of every other key as it is.
C25_LastWriterWins ==
    /\ [](\A stage \in Partitions : \A d \in UserPapers :
             LET key == GenerateKey(d, UserHash)
             IN  GetNow(stage, d) # None =>
                     /\ key \in DOMAIN written[stage]
                     /\ GetNow(stage, d) = written[stage][key][1]
                     /\ GetNow(stage, d) \in UserResults(d))
    /\ [][writes_left' < writes_left =>
            \E sk \in Rows(cache') :
                /\ Rows(cache') = Rows(cache) \cup {sk}
                /\ \A o \in Rows(cache) \ {sk} : cache'[o[1]][o[2]] = cache[o[1]][o[2]]]_vars

\* a key whose value was replaced by a set with another value holds the
\* second value
C25_Witness ==
    \E stage \in Partitions : \E d \in UserPapers :
        /\ GetNow(stage, d) # None
        /\ written[stage][GenerateKey(d, UserHash)][3] # None
        /\ written[stage][GenerateKey(d, UserHash)][3] # GetNow(stage, d)

\* C26: a document is immutable once fetched: in every state of a run each
\* paper of the listing has the abstract the listing gave it.
C26_DocumentIsImmutable ==
    \A d \in SeqToSet(papers) : abstracts[d] = Abstract(d)

\* the list filter_batch is to return when every oracle call succeeded: the
\* cache hits in input order with the values the cache held at the call, the
\* papers whose fetch failed (stage 3) in input order with None, then the
\* papers sent to the oracle in input order with their own fresh judgments
ExpectedResults ==
    LET IsHit(d) == CurrentKey(d) \in DOMAIN cache_at_call[fstage]
        IsMiss(d) == ~IsHit(d)
        NoPage(d) == \E i \in DOMAIN ftasks : ftasks[i].id = d /\ ftasks[i].result = None
        Judge(d) == IsMiss(d) /\ ~(fstage = 3 /\ NoPage(d))
        Skip(d) == IsMiss(d) /\ fstage = 3 /\ NoPage(d)
        hits == SelectSeq(fpapers, IsHit)
        skipped == SelectSeq(fpapers, Skip)
        sent == SelectSeq(fpapers, Judge)
    IN  [i \in 1..Len(hits) |-> <<hits[i], cache_at_call[fstage][CurrentKey(hits[i])]>>]
        \o [i \in 1..Len(skipped) |-> <<skipped[i], None>>]
        \o [i \in 1..Len(sent) |->
               <<sent[i],
                 PrepareResultWithConversation(
                     tasks[i].response, CurrentThreshold,
                     BuildMessages(fstage, sent[i], config.user_prompt))>>]

\* C27: when every oracle call of the batch succeeded, filter_batch returns
\* each input paper exactly once: the cache hits first, in input order with
\* their cached judgments, then (stage 3) the papers whose fetch failed with
\* None, then the newly judged papers in input order with their fresh
\* judgments.
C27_ResultsAreHitsThenFresh ==
    (fpc = "returned" /\ \A i \in DOMAIN tasks : tasks[i].st = "ok") =>
        /\ all_results = ExpectedResults
        /\ Len(all_results) = Len(fpapers)
        /\ \A d \in SeqToSet(fpapers) :
              Cardinality({k \in DOMAIN all_results : all_results[k][1] = d}) = 1

\* a call returned a cache hit followed by a fresh judgment
C27_Witness ==
    /\ fpc = "returned"
    /\ \A i \in DOMAIN tasks : tasks[i].st = "ok"
    /\ Len(all_results) = 2
    /\ CurrentKey(all_results[1][1]) \in DOMAIN cache_at_call[fstage]
    /\ all_results[2][1] \in AnsweredNow

\* the stages whose judgment an exported record holds with pass = true
PassedStages(p) ==
    {k \in Stages :
        LET j == IF k = 1 THEN p.stage1 ELSE IF k = 2 THEN p.stage2 ELSE p.stage3
        IN  j # None /\ j.pass}

\* C28: in the exported digest every paper of stage1_results has one record;
\* its max_stage is the highest stage whose judgment has pass = true, 0 when
\* it did not pass stage 1; a stage 2 judgment is present only if the stage 1
\* judgment passed and a stage 3 judgment only if the stage 2 judgment
\* passed; and each judgment is the one the pipeline returned for the paper.
C28_MaxStageIsHighestPassedStage ==
    mpc = "exported" =>
        /\ Len(digest) = Len(stage_results[1])
        /\ \A k \in DOMAIN stage_results[1] :
              \E i \in DOMAIN digest :
                  /\ digest[i].arxiv_id = stage_results[1][k][1]
                  /\ digest[i].stage1 = FormatStageResult(stage_results[1][k][2])
        /\ \A i \in DOMAIN digest :
              LET p == digest[i]
              IN  /\ p.max_stage = IF PassedStages(p) = {} THEN 0
                                   ELSE CHOOSE k \in PassedStages(p) :
                                            \A o \in PassedStages(p) : o <= k
                  /\ p.stage2 # None => p.stage1.pass
                  /\ p.stage3 # None => (p.stage2 # None /\ p.stage2.pass)
                  /\ \A s \in {2, 3} : \A k \in DOMAIN stage_results[s] :
                        (stage_results[s][k][1] = p.arxiv_id /\ stage_results[s][k][2] # None) =>
                            (IF s = 2 THEN p.stage2 ELSE p.stage3)
                                = FormatStageResult(stage_results[s][k][2])

\* the digest holds a paper that stage 3 judged and did not pass
C28_Witness ==
    /\ mpc = "exported"
    /\ \E i \in DOMAIN digest :
          /\ digest[i].stage3 # None
          /\ ~digest[i].stage3.pass
          /\ digest[i].max_stage = 2

IsPrefix(s, t) == Len(s) <= Len(t) /\ SubSeq(t, 1, Len(s)) = s
Contains(text, part) ==
    \E i \in 1..(Len(text) - Len(part) + 1) : SubSeq(text, i, i + Len(part) - 1) = part

\* C29: for every page and every configured character budget, the text
\* clean returns is at most that many characters long and is a prefix of
\* the extraction made without a budget.
C29_CleanKeepsToTheCharacterBudget ==
    (Len(cleaned) > 0 /\ Len(max_chars) > 0) =>
        /\ Len(cleaned[1]) <= max_chars[1]
        /\ IsPrefix(cleaned[1], Clean(html, <<>>))

\* the markdown marker of a heading of the level
HeadingMarker(level) ==
    IF HeaderLevel[level] <= 2 THEN <<"#", "#">> ELSE <<"#", "#", "#">>

\* clean has returned the whole extraction of a snippet page
SnippetExtracted ==
    /\ Len(cleaned) > 0
    /\ html \in Snippets
    /\ cleaned[1] = Clean(html, <<>>)

\* the paragraph text, the TeX source in single dollars and the citation's
\* author and year are in the text, and no markup is
BodyFragmentsAppear(q, text) ==
    /\ Contains(text, q.paragraph)
    /\ Contains(text, <<"$">> \o q.tex \o <<"$">>)
    /\ ~Contains(text, <<"$", "$">>)
    /\ Contains(text, Author)
    /\ Contains(text, Year)
    /\ \A i \in DOMAIN text : text[i] \notin {"<", ">"}

\* C30 (as stated): the extraction of a page with one heading, one
\* paragraph, one equation table and one citation contains the heading
\* marker followed by the heading text, the paragraph text, the equation's
\* TeX source in single dollars and the citation's author and year, and no
\* markup.
C30_SnippetTextContainsItsFragments ==
    SnippetExtracted =>
        \A q \in SnippetParams : html = Snippet(q) =>
            /\ Contains(cleaned[1], HeadingMarker(q.level) \o <<" ">> \o q.heading)
            /\ BodyFragmentsAppear(q, cleaned[1])

\* C30 (amended): the same, the heading text standing after its marker with
\* a space put after a leading number that a capital letter follows
\* directly.
C30_SnippetTextContainsItsFragmentsHeaderRepaired ==
    SnippetExtracted =>
        \A q \in SnippetParams : html = Snippet(q) =>
            /\ Contains(cleaned[1],
                        RepairHeaderNumber(HeadingMarker(q.level) \o <<" ">> \o q.heading))
            /\ BodyFragmentsAppear(q, cleaned[1])
\* a snippet whose heading starts with a number and a capital, with a
\* numbered equation and the citation inside the paragraph, has been cleaned
C30_Witness ==
    /\ SnippetExtracted
    /\ \E q \in SnippetParams :
        /\ html = Snippet(q)
        /\ q.heading = <<"1", "I", "n">>
        /\ q.numbered
        /\ q.cite_inside
        /\ Contains(cleaned[1], <<"$">> \o q.tex \o <<"$", " ">> \o EquationNumber)

\* every request of the batch handed to complete_batch has ended, with an
\* answer or with its own exception
BatchRanToCompletion ==
    \A i \in DOMAIN tasks : tasks[i].st \in {"ok", "failed"}

\* C31: within one filter_batch no result of the oracle batch is consumed
\* before the whole batch has run to completion: while complete_batch is
\* out, a step that writes the cache, or that gives filter_batch a result of
\* the batch, is taken only when every request of the batch has ended, by
\* success or by its own failure.
C31_NoResultConsumedBeforeBatchCompletes ==
    [][(/\ fpc = "llm"
        /\ \/ cache' # cache
           \/ valid_results' # valid_results
           \/ evaluated_results' # evaluated_results)
       => BatchRanToCompletion]_vars

\* a batch of two requests, one failed and one answered, after which the
\* stage's partition was written
C31_Witness ==
    /\ fpc \in {"returned", "raised"}
    /\ Len(tasks) >= 2
    /\ \E i \in DOMAIN tasks : tasks[i].st = "failed"
    /\ \E i \in DOMAIN tasks : tasks[i].st = "ok"
    /\ fstage \in Stages
    /\ cache[fstage] # cache_at_call[fstage]

\* the cache holds the oracle's latest answer for the key of a stage
JudgmentCached(s, k) ==
    /\ k \in DOMAIN cache[s]
    /\ cache[s][k].score = judged[s][k][Len(judged[s][k])].score
    /\ cache[s][k].reasoning = judged[s][k][Len(judged[s][k])].reasoning

\* the keys of the batch that complete_batch is running
RunningBatchKeys ==
    IF fpc = "llm"
    THEN {GenerateKey(batch_papers[i], ConfigHash(config)) : i \in DOMAIN batch_papers}
    ELSE {}

\* C32: at any point of a run where the process may be interrupted, the
\* judgments the oracle produced and the cache does not hold are at most
\* those of the requests still outstanding in the running batch: every
\* judgment of an earlier batch is in the cache, and while requests of the
\* running batch are outstanding every request of it that has been answered
\* is in the cache too.
C32_InterruptLosesOnlyInFlightJudgments ==
    (pc \in {"Stage1", "Stage2", "Stage3"} /\ fpc # "raised") =>
        /\ \A s \in Stages : \A k \in DOMAIN judged[s] :
               ~(s = fstage /\ k \in RunningBatchKeys) => JudgmentCached(s, k)
        /\ (fpc = "llm" /\ ~BatchRanToCompletion) =>
               \A i \in DOMAIN tasks :
                   tasks[i].st = "ok" =>
                       JudgmentCached(fstage, GenerateKey(batch_papers[i], ConfigHash(config)))

\* s holds n consecutive characters c
HasRun(s, c, n) ==
    \E i \in 1..(Len(s) - n + 1) : \A j \in 0..(n - 1) : s[i + j] = c

\* C33: for every input text, the output of the whitespace normalization has
\* no run of two or more spaces and never three or more consecutive
\* newlines (at most one blank line between two non-blank lines).
C33_NormalizedTextHasNoRuns ==
    Len(normalized) > 0 =>
        /\ ~HasRun(normalized[1], " ", 2)
        /\ ~HasRun(normalized[1], NL, 3)

\* the part of C33 on spaces alone
C33_NoRunOfSpaces ==
    Len(normalized) > 0 => ~HasRun(normalized[1], " ", 2)

\* no oracle request holds a permit of the client's pool
NoOracleRequestInFlight ==
    /\ \A i \in DOMAIN tasks : tasks[i].st # "inflight"
    /\ single # "inflight"

\* no fetch holds a permit of the crawler's pool (a fetch keeps its permit
\* while it sleeps before a retry)
NoFetchInFlight ==
    \A i \in DOMAIN ftasks : ftasks[i].st \notin {"inflight", "sleeping"}

\* C34: every fetch and every oracle completion gives its permit back when it
\* ends, by success, by failure or by exhausted retries: whenever no request
\* of a pool is in flight, the pool has as many permits as it was built with.
C34_PermitsReturnedWhenNothingInFlight ==
    /\ NoOracleRequestInFlight => llm_permits = LLMMaxConcurrent
    /\ NoFetchInFlight => fetch_permits = CrawlerMaxConcurrent

\* a stage 3 call in which a fetch used up its retries on timeouts, another
\* got its page and the oracle request for it failed; nothing is in flight
C34_Witness ==
    /\ fpc = "raised"
    /\ NoOracleRequestInFlight
    /\ NoFetchInFlight
    /\ \E i \in DOMAIN ftasks :
           /\ ftasks[i].st = "done"
           /\ ftasks[i].last = "timeout"
           /\ ftasks[i].attempt = max_retries
           /\ max_retries > 1
    /\ \E i \in DOMAIN tasks : tasks[i].st = "failed"
    /\ single = "failed"

\* the answers the oracle has given at a stage, under any key
OracleAnswersGiven(s) ==
    UNION {SeqToSet(judged[s][k]) : k \in DOMAIN judged[s]}

\* C35: stage 3 never writes a cache entry for a document whose full-content
\* fetch failed, and caches only judgments the oracle returned: a key whose
\* latest fetch gave no page has no row in the stage 3 partition, every row
\* of the partition carries an answer the oracle gave, and a stage 3 call of
\* a later run with the same fingerprint fetches the document again.
C35_UnevaluatedIsNeverCached ==
    /\ \A k \in fetch_failed : k \notin DOMAIN cache[3]
    /\ \A k \in DOMAIN cache[3] : cache[3][k].messages[2] \in OracleAnswersGiven(3)
    /\ (fstage = 3 /\ fpc = "fetch") =>
           \A d \in SeqToSet(fpapers) :
               GenerateKey(d, ConfigHash(config)) \in fetch_failed =>
                   /\ d \in SeqToSet(uncached_papers)
                   /\ \E i \in DOMAIN ftasks : ftasks[i].id = d

\* the second run, under the fingerprint of the first, fetches again a paper
\* whose fetch failed in the first run
C35_Witness ==
    /\ runs_left = MaxRuns - 2
    /\ fstage = 3
    /\ fpc = "fetch"
    /\ \E d \in SeqToSet(fpapers) :
           /\ GenerateKey(d, ConfigHash(config)) \in fetch_failed
           /\ \E i \in DOMAIN ftasks : ftasks[i].id = d

\* C36: highlight_batch writes a highlight cache entry for a paper only if
\* the oracle call for its abstract succeeded: a paper whose call failed
\* (its highlight info carries no conversation and its abstract is returned
\* without bold) has no row in the highlight partition.
C36_FailedHighlightIsNotCached ==
    mpc \in {"highlighted", "exported"} =>
        \A d \in DOMAIN highlight_info :
            highlight_info[d].messages = <<>> =>
                GenerateKey(d, ConfigHash(config)) \notin DOMAIN cache[Highlight]

\* C37: the cache key is injective in (document id, fingerprint) within a
\* partition: two calls of _generate_key whose (id, fingerprint) pairs
\* differ, pairs with an absent or an empty fingerprint and ids that hold
\* ":" included, never give the same key.
C37_CacheKeyIsInjective ==
    \A i, j \in DOMAIN key_calls :
        (/\ key_calls[i].key # <<>>
         /\ key_calls[j].key # <<>>
         /\ \/ key_calls[i].paper_id # key_calls[j].paper_id
            \/ key_calls[i].config_hash # key_calls[j].config_hash)
            => key_calls[i].key # key_calls[j].key

\* C38: a stage's filter_batch called with an empty document list, and the
\* pipeline's run called with one, return an empty result without raising.
C38_EmptyListReturnsEmptyResult ==
    /\ (InCall /\ fpapers = <<>>) => (fpc = "returned" /\ all_results = <<>>)
    /\ (pc # "idle" /\ papers = <<>>) => pc # "raised"

\* the papers the oracle's recorded responses give a score at or above the
\* threshold: batch b starts at (b - 1) * num_papers_per_batch
ExpectedRelevant ==
    LET n == scorer.num_papers_per_batch
        Start(b) == (b - 1) * n
    IN  {[id |-> scorer.papers[Start(b) + i], score |-> scorer.responses[b].scores[i]] :
            <<b, i>> \in
                {x \in (DOMAIN scorer.responses) \X (1..NumDocs) :
                    /\ ~scorer.responses[x[1]].raised
                    /\ x[2] <= n
                    /\ x[2] <= Len(scorer.responses[x[1]].scores)
                    /\ Start(x[1]) + x[2] <= Len(scorer.papers)
                    /\ scorer.responses[x[1]].scores[x[2]] >= scorer.threshold_score}}

\* C39: generate_relevance_score returns exactly the papers of the
\* successfully scored batches whose score is at or above threshold_score,
\* each once, sorted by score in non-increasing order; a batch whose oracle
\* call raises adds nothing and every batch after it is still scored.
C39_ScorerReturnsRelevantPapersSorted ==
    scorer.pc = "returned" =>
        /\ SeqToSet(scorer.result) = ExpectedRelevant
        /\ Len(scorer.result) = Cardinality(ExpectedRelevant)
        /\ \A i, j \in DOMAIN scorer.result :
               i < j => scorer.result[i].score >= scorer.result[j].score
        /\ Len(scorer.responses) * scorer.num_papers_per_batch >= Len(scorer.papers)

\* the first batch raised, a later one was scored and a paper of it is
\* returned
C39_Witness ==
    /\ scorer.pc = "returned"
    /\ Len(scorer.responses) >= 2
    /\ scorer.responses[1].raised
    /\ ~scorer.responses[2].raised
    /\ scorer.result # <<>>

====
